---- MODULE Spec2Model ----
(***************************************************************************)
(* Model of the Rust wrappers of constantine (the constantine-rust crates): *)
(* the Ethereum BLS signature API and the Ethereum KZG API, on top of the  *)
(* engine they call through the C ABI.                                     *)
(*                                                                         *)
(* The wrappers are translated from the Rust sources.  The engine (the Nim *)
(* library behind constantine-sys) is not part of these sources; it is     *)
(* modelled from the specification over a small prime-order group in which *)
(* a point is represented by its discrete logarithm: the generator is 1,   *)
(* the point at infinity is 0, and the pairing e(a, b) is a * b mod order. *)
(***************************************************************************)
EXTENDS Integers, Sequences, FiniteSets, TLC

VARIABLES
    pc,      \* "idle": the caller is between calls; "done": a call has returned
    op,      \* name of the wrapper that was called last
    args,    \* the arguments of that call
    ret,     \* what the call produced for the caller
    engine,  \* the engine functions the call invoked, in order
    prior,   \* result of the serial call made just before on the same arguments
    pools,   \* the engine's thread pools, by handle
    setups,  \* the engine's trusted-setup contexts, by pointer
    wrappers, \* the builders and contexts the callers hold, by variable
    running  \* per thread: the engine call the thread is blocked in

vars == <<pc, op, args, ret, engine, prior, pools, setups, wrappers, running>>

lifeVars == <<pools, setups, wrappers, running>>

----------------------------------------------------------------------------
(* Bounds of the model *)

\* longest array handed to an aggregate or batch operation
MaxBatch == 2
\* longest message, in bytes
MaxMsgLen == 1
\* thread pools created in one run
MaxPools == 2
\* trusted setups loaded in one run
MaxSetups == 2
\* longest input of an EVM precompile call
MaxInputLen == 6

----------------------------------------------------------------------------
(* The group of the engine *)

\* order of the prime-order subgroup (and modulus of the scalar field)
CurveOrder == 5

\* points of the subgroup, by discrete logarithm; 0 is the point at infinity
Points == 0 .. (CurveOrder - 1)

Bytes == {0, 1}

RECURSIVE SeqsOfLen(_, _)
SeqsOfLen(S, n) ==
    IF n = 0 THEN {<<>>}
    ELSE {Append(s, x) : s \in SeqsOfLen(S, n - 1), x \in S}

SeqsUpTo(S, n) == UNION {SeqsOfLen(S, k) : k \in 0 .. n}

Messages == SeqsUpTo(Bytes, MaxMsgLen)

\* the values of secure_random_bytes the callers use
Seeds == {0, 1}

RECURSIVE SumSeq(_)
SumSeq(s) == IF s = <<>> THEN 0 ELSE Head(s) + SumSeq(Tail(s))

----------------------------------------------------------------------------
(* Results handed to the caller *)

Ok(v) == [tag |-> "Ok", val |-> v, err |-> "none"]
Err(status) == [tag |-> "Err", val |-> FALSE, err |-> status]
\* the call did not return: a Rust panic
Panic(msg) == [tag |-> "Panic", val |-> FALSE, err |-> msg]
\* the call did not return: the process was killed by an invalid memory access
Crash == [tag |-> "Crash", val |-> FALSE, err |-> "invalid memory access"]

\* one engine invocation: the function, the element count it was given,
\* whether one of the arrays it was given holds fewer elements than that, and
\* the status it returned ("none" when it did not return)
EngineCall(fn, len, short, status) ==
    [fn |-> fn, len |-> len, short |-> short, status |-> status]

Outcome(r, calls) == [ret |-> r, engine |-> calls]

----------------------------------------------------------------------------
(* Memory handed across the C ABI *)

\* What a callee can read from a (pointer, len) pair whose pointer is the
\* start of the array arr: the elements of arr, and, past the end of arr,
\* bytes that belong to something else (any value of Garbage).
FfiRead(arr, len, Garbage) ==
    IF len <= Len(arr) THEN {SubSeq(arr, 1, len)}
    ELSE {arr \o g : g \in SeqsOfLen(Garbage, len - Len(arr))}

\* a span whose data pointer and length come from foreign memory
GarbageSpans == {[data |-> m, len |-> Len(m)] : m \in {<<>>, <<0>>}}

\* foreign memory read as a public key or a signature
GarbagePoints == {0, 1, 2}

\* the bytes a callee reads through a (data, len) span
SpanBytes(span) == SubSeq(span.data, 1, span.len)

----------------------------------------------------------------------------
(* The engine's BLS signature functions (behind constantine-sys) *)

\* hash-to-curve onto the signature group; never the point at infinity
hash_to_curve(message) ==
    1 + ((Len(message) + SumSeq(message)) % (CurveOrder - 1))

\* e(a, b), as the discrete logarithm of the target-group element
Pairing(a, b) == (a * b) % CurveOrder

ScalarMul(k, P) == (k * P) % CurveOrder

PointAdd(P, Q) == (P + Q) % CurveOrder

\* raw secret keys: 32 big-endian bytes, here the integer they encode
RawSecKeys == 0 .. (CurveOrder + 1)

ctt_eth_bls_deserialize_seckey(src) ==
    IF src = 0 THEN [status |-> "cttCodecScalar_Zero", val |-> 0]
    ELSE IF src >= CurveOrder
         THEN [status |-> "cttCodecScalar_ScalarLargerThanCurveOrder", val |-> 0]
         ELSE [status |-> "cttCodecScalar_Success", val |-> src]

\* compressed point encodings: 0 is the encoding with the infinity bit set,
\* 1 .. CurveOrder-1 hold the x coordinate of a subgroup point and the sign
\* of its y (as 2 * x - 1 + sign), the others are malformed
EncCoordinateTooLarge == CurveOrder
EncNotOnCurve == CurveOrder + 1
EncNotInSubgroup == CurveOrder + 2
EncInvalid == CurveOrder + 3
InfinityEncoding == 0
PointEncodings == 0 .. EncInvalid

\* a curve point outside the prime-order subgroup
OffSubgroupPoint == CurveOrder

\* affine coordinates of a subgroup point: P and -P share x and differ in
\* the sign of y
XCoord(P) == IF 2 * P < CurveOrder THEN P ELSE CurveOrder - P
YSign(P) == IF 2 * P < CurveOrder THEN 0 ELSE 1

\* the point of the subgroup with the given x and sign of y
PointOf(x, sign) == IF sign = 0 THEN x ELSE CurveOrder - x

\* decompression of a well-formed encoding of a point other than infinity
DecompressPoint(src) == PointOf((src + 1) \div 2, (src + 1) % 2)

\* compression: the canonical encoding of a point
SerializePoint(P) ==
    CASE P = 0 -> InfinityEncoding
      [] P = OffSubgroupPoint -> EncNotInSubgroup
      [] OTHER -> 2 * XCoord(P) - 1 + YSign(P)

DeserializePoint(src, checked) ==
    CASE src = InfinityEncoding ->
           [status |-> "cttCodecEcc_PointAtInfinity", val |-> 0]
      [] src = EncInvalid ->
           [status |-> "cttCodecEcc_InvalidEncoding", val |-> 0]
      [] src = EncCoordinateTooLarge ->
           [status |-> "cttCodecEcc_CoordinateGreaterThanOrEqualModulus", val |-> 0]
      [] src = EncNotOnCurve ->
           [status |-> "cttCodecEcc_PointNotOnCurve", val |-> 0]
      [] src = EncNotInSubgroup ->
           IF checked
           THEN [status |-> "cttCodecEcc_PointNotInSubgroup", val |-> 0]
           ELSE [status |-> "cttCodecEcc_Success", val |-> OffSubgroupPoint]
      [] OTHER ->
           [status |-> "cttCodecEcc_Success", val |-> DecompressPoint(src)]

ctt_eth_bls_serialize_pubkey_compressed(pkey) ==
    [status |-> "cttCodecEcc_Success", val |-> SerializePoint(pkey)]

ctt_eth_bls_serialize_signature_compressed(sig) ==
    [status |-> "cttCodecEcc_Success", val |-> SerializePoint(sig)]

ctt_eth_bls_deserialize_pubkey_compressed(src) == DeserializePoint(src, TRUE)
ctt_eth_bls_deserialize_signature_compressed(src) == DeserializePoint(src, TRUE)
ctt_eth_bls_deserialize_pubkey_compressed_unchecked(src) == DeserializePoint(src, FALSE)
ctt_eth_bls_deserialize_signature_compressed_unchecked(src) == DeserializePoint(src, FALSE)

\* pk = sk * G
\* validation of a decoded point: the identity and the points outside the
\* subgroup are refused
ValidatePoint(P) ==
    CASE P = 0 -> "cttCodecEcc_PointAtInfinity"
      [] P = OffSubgroupPoint -> "cttCodecEcc_PointNotInSubgroup"
      [] OTHER -> "cttCodecEcc_Success"

ctt_eth_bls_validate_pubkey(pkey) == ValidatePoint(pkey)
ctt_eth_bls_validate_signature(sig) == ValidatePoint(sig)

ctt_eth_bls_derive_pubkey(skey) == ScalarMul(skey, 1)

\* signature = sk * H(message)
ctt_eth_bls_sign(skey, message, message_len) ==
    ScalarMul(skey, hash_to_curve(SubSeq(message, 1, message_len)))

ctt_eth_bls_verify(pkey, message, message_len, sig) ==
    IF pkey = 0 \/ sig = 0 THEN "cttEthBls_PointAtInfinity"
    ELSE IF Pairing(pkey, hash_to_curve(SubSeq(message, 1, message_len)))
              = Pairing(1, sig)
         THEN "cttEthBls_Success"
         ELSE "cttEthBls_VerificationFailure"

RECURSIVE SumPoints(_)
SumPoints(ps) ==
    IF ps = <<>> THEN 0 ELSE PointAdd(Head(ps), SumPoints(Tail(ps)))

ctt_eth_bls_fast_aggregate_verify(pubkeys, pubkeys_len, message, message_len, sig) ==
    IF pubkeys_len = 0 THEN "cttEthBls_ZeroLengthAggregation"
    ELSE IF sig = 0 \/ \E i \in 1 .. pubkeys_len : pubkeys[i] = 0
         THEN "cttEthBls_PointAtInfinity"
         ELSE ctt_eth_bls_verify(SumPoints(SubSeq(pubkeys, 1, pubkeys_len)),
                                 message, message_len, sig)

\* sum over lo..hi of c[i] * e(pk[i], H(msg[i])), the product of pairings
RECURSIVE PairingSum(_, _, _, _, _)
PairingSum(pubkeys, messages, c, lo, hi) ==
    IF lo > hi THEN 0
    ELSE (c[lo] * Pairing(pubkeys[lo], hash_to_curve(SpanBytes(messages[lo])))
          + PairingSum(pubkeys, messages, c, lo + 1, hi)) % CurveOrder

\* sum over lo..hi of c[i] * sig[i]
RECURSIVE ScaledSum(_, _, _, _)
ScaledSum(sigs, c, lo, hi) ==
    IF lo > hi THEN 0
    ELSE (ScalarMul(c[lo], sigs[lo]) + ScaledSum(sigs, c, lo + 1, hi)) % CurveOrder

Ones(len) == [i \in 1 .. len |-> 1]

ctt_eth_bls_aggregate_verify(pubkeys, messages, len, aggregate_sig) ==
    IF len = 0 THEN "cttEthBls_ZeroLengthAggregation"
    ELSE IF aggregate_sig = 0 \/ \E i \in 1 .. len : pubkeys[i] = 0
         THEN "cttEthBls_PointAtInfinity"
         ELSE IF PairingSum(pubkeys, messages, Ones(len), 1, len)
                   = Pairing(1, aggregate_sig)
              THEN "cttEthBls_Success"
              ELSE "cttEthBls_VerificationFailure"

\* the nonzero blinding coefficients r_1 .. r_len derived from the seed
BlindingCoefs(secure_random_bytes, len) ==
    [i \in 1 .. len |-> 1 + ((secure_random_bytes + i) % (CurveOrder - 1))]

ctt_eth_bls_batch_verify(pubkeys, messages, sigs, len, secure_random_bytes) ==
    IF len = 0 THEN "cttEthBls_ZeroLengthAggregation"
    ELSE IF \E i \in 1 .. len : pubkeys[i] = 0 \/ sigs[i] = 0
         THEN "cttEthBls_PointAtInfinity"
         ELSE LET r == BlindingCoefs(secure_random_bytes, len)
              IN  IF PairingSum(pubkeys, messages, r, 1, len)
                        = Pairing(1, ScaledSum(sigs, r, 1, len))
                  THEN "cttEthBls_Success"
                  ELSE "cttEthBls_VerificationFailure"

\* worker k of nthreads (from 0) takes the items ChunkLo .. ChunkHi of len
ChunkLo(len, nthreads, k) == ((k * len) \div nthreads) + 1
ChunkHi(len, nthreads, k) == ((k + 1) * len) \div nthreads

\* the workers' partial results, merged in worker order
RECURSIVE MergePairings(_, _, _, _, _, _)
MergePairings(pubkeys, messages, c, len, nthreads, k) ==
    IF k = nthreads THEN 0
    ELSE (PairingSum(pubkeys, messages, c,
                     ChunkLo(len, nthreads, k), ChunkHi(len, nthreads, k))
          + MergePairings(pubkeys, messages, c, len, nthreads, k + 1)) % CurveOrder

RECURSIVE MergeSigs(_, _, _, _, _)
MergeSigs(sigs, c, len, nthreads, k) ==
    IF k = nthreads THEN 0
    ELSE (ScaledSum(sigs, c, ChunkLo(len, nthreads, k), ChunkHi(len, nthreads, k))
          + MergeSigs(sigs, c, len, nthreads, k + 1)) % CurveOrder

ctt_eth_bls_batch_verify_parallel(tp, pubkeys, messages, sigs, len, secure_random_bytes) ==
    IF len = 0 THEN "cttEthBls_ZeroLengthAggregation"
    ELSE IF \E i \in 1 .. len : pubkeys[i] = 0 \/ sigs[i] = 0
         THEN "cttEthBls_PointAtInfinity"
         ELSE LET r == BlindingCoefs(secure_random_bytes, len)
              IN  IF MergePairings(pubkeys, messages, r, len, tp.num_threads, 0)
                        = Pairing(1, MergeSigs(sigs, r, len, tp.num_threads, 0))
                  THEN "cttEthBls_Success"
                  ELSE "cttEthBls_VerificationFailure"

----------------------------------------------------------------------------
(* The engine's KZG functions (behind constantine-sys) *)

\* field elements per blob (4096 in the build), scaled down
FIELD_ELEMENTS_PER_BLOB == 2

\* the evaluation domain: the roots of unity of order FIELD_ELEMENTS_PER_BLOB
Domain == <<1, CurveOrder - 1>>

\* a 32-byte field element, by the integer it encodes; CurveOrder stands for
\* every non-canonical encoding
RawFieldElements == 0 .. CurveOrder

Blobs == SeqsOfLen(RawFieldElements, FIELD_ELEMENTS_PER_BLOB)

\* a loaded trusted setup: the structured reference string of secret tau
TrustedSetup == [tau |-> 2]

FieldSub(a, b) == (a + CurveOrder - b) % CurveOrder

RECURSIVE FieldPow(_, _)
FieldPow(a, n) == IF n = 0 THEN 1 ELSE (a * FieldPow(a, n - 1)) % CurveOrder

FieldInv(a) == FieldPow(a, CurveOrder - 2)

\* the i-th Lagrange basis polynomial of the domain, at x
RECURSIVE LagrangeBasis(_, _, _)
LagrangeBasis(i, j, x) ==
    IF j > FIELD_ELEMENTS_PER_BLOB THEN 1
    ELSE IF j = i THEN LagrangeBasis(i, j + 1, x)
         ELSE (FieldSub(x, Domain[j]) * FieldInv(FieldSub(Domain[i], Domain[j]))
               * LagrangeBasis(i, j + 1, x)) % CurveOrder

\* the blob's polynomial (given by its values on the domain), at x
RECURSIVE EvalPolyFrom(_, _, _)
EvalPolyFrom(blob, i, x) ==
    IF i > FIELD_ELEMENTS_PER_BLOB THEN 0
    ELSE (blob[i] * LagrangeBasis(i, 1, x) + EvalPolyFrom(blob, i + 1, x))
         % CurveOrder

EvalPoly(blob, x) == EvalPolyFrom(blob, 1, x)

BlobIsCanonical(blob) ==
    \A i \in 1 .. FIELD_ELEMENTS_PER_BLOB : blob[i] < CurveOrder

\* decoding of a 48-byte commitment or proof; the point at infinity is a
\* valid commitment (of the zero polynomial) and a valid proof
KzgDecodePoint(src) ==
    CASE src = EncInvalid ->
           [status |-> "cttEthKzg_EccInvalidEncoding", val |-> 0]
      [] src = EncCoordinateTooLarge ->
           [status |-> "cttEthKzg_EccCoordinateGreaterThanOrEqualModulus", val |-> 0]
      [] src = EncNotOnCurve ->
           [status |-> "cttEthKzg_EccPointNotOnCurve", val |-> 0]
      [] src = EncNotInSubgroup ->
           [status |-> "cttEthKzg_EccPointNotInSubgroup", val |-> 0]
      [] src = InfinityEncoding ->
           [status |-> "cttEthKzg_Success", val |-> 0]
      [] OTHER ->
           [status |-> "cttEthKzg_Success", val |-> DecompressPoint(src)]

KzgDecodeField(src) ==
    IF src >= CurveOrder
    THEN [status |-> "cttEthKzg_ScalarLargerThanCurveOrder", val |-> 0]
    ELSE [status |-> "cttEthKzg_Success", val |-> src]

KzgDecodeBlob(blob) ==
    IF BlobIsCanonical(blob)
    THEN [status |-> "cttEthKzg_Success", val |-> blob]
    ELSE [status |-> "cttEthKzg_ScalarLargerThanCurveOrder", val |-> blob]

\* the opening equation e(C - [y]G1, G2) = e(proof, [tau - z]G2)
KzgOpeningHolds(ctx, C, z, y, proof) ==
    Pairing(FieldSub(C, y), 1) = Pairing(proof, FieldSub(ctx.tau, z))

\* Fiat-Shamir challenge bound to the blob and its commitment
FiatShamirChallenge(blob, C) == (SumSeq(blob) + 2 * C + 1) % CurveOrder

\* the blob's polynomial restricted to the items lo .. hi of the domain, at x
RECURSIVE EvalPolyChunk(_, _, _, _)
EvalPolyChunk(blob, lo, hi, x) ==
    IF lo > hi THEN 0
    ELSE (blob[lo] * LagrangeBasis(lo, 1, x) + EvalPolyChunk(blob, lo + 1, hi, x))
         % CurveOrder

\* the workers' partial evaluations, merged in worker order
RECURSIVE MergeEval(_, _, _, _)
MergeEval(blob, x, nthreads, k) ==
    IF k = nthreads THEN 0
    ELSE (EvalPolyChunk(blob, ChunkLo(FIELD_ELEMENTS_PER_BLOB, nthreads, k),
                        ChunkHi(FIELD_ELEMENTS_PER_BLOB, nthreads, k), x)
          + MergeEval(blob, x, nthreads, k + 1)) % CurveOrder

\* evaluation on the calling thread (nthreads = 0) or on the pool's workers
EvalOn(nthreads, blob, x) ==
    IF nthreads = 0 THEN EvalPoly(blob, x) ELSE MergeEval(blob, x, nthreads, 0)

\* the quotient (p(X) - y) / (X - z) at tau; the polynomial of a blob of two
\* elements has degree 1, so the quotient is a constant and can be taken at
\* any point other than z
KzgQuotient(nthreads, ctx, blob, z, y) ==
    LET w == IF ctx.tau = z THEN (z + 1) % CurveOrder ELSE ctx.tau
    IN  (FieldSub(EvalOn(nthreads, blob, w), y) * FieldInv(FieldSub(w, z)))
        % CurveOrder

\* commitment = [p(tau)]G1
KzgCommit(nthreads, ctx, blob) ==
    LET B == KzgDecodeBlob(blob)
    IN  IF B.status # "cttEthKzg_Success"
        THEN [status |-> B.status, val |-> 0]
        ELSE [status |-> "cttEthKzg_Success",
              val |-> SerializePoint(EvalOn(nthreads, blob, ctx.tau))]

ctt_eth_kzg_blob_to_kzg_commitment(ctx, blob) == KzgCommit(0, ctx, blob)

ctt_eth_kzg_blob_to_kzg_commitment_parallel(tp, ctx, blob) == KzgCommit(tp.num_threads, ctx, blob)

\* proof = [q(tau)]G1 and y = p(z)
KzgOpen(nthreads, ctx, blob, z_challenge) ==
    LET B == KzgDecodeBlob(blob)
        z == KzgDecodeField(z_challenge)
    IN  CASE B.status # "cttEthKzg_Success" -> [status |-> B.status, val |-> <<0, 0>>]
          [] z.status # "cttEthKzg_Success" -> [status |-> z.status, val |-> <<0, 0>>]
          [] OTHER ->
               LET y == EvalOn(nthreads, blob, z.val)
               IN  [status |-> "cttEthKzg_Success",
                    val |-> <<SerializePoint(KzgQuotient(nthreads, ctx, blob, z.val, y)), y>>]

ctt_eth_kzg_compute_kzg_proof(ctx, blob, z_challenge) == KzgOpen(0, ctx, blob, z_challenge)

ctt_eth_kzg_compute_kzg_proof_parallel(tp, ctx, blob, z_challenge) == KzgOpen(tp.num_threads, ctx, blob, z_challenge)

\* proof of the blob at its Fiat-Shamir challenge
KzgOpenBlob(nthreads, ctx, blob, commitment) ==
    LET C == KzgDecodePoint(commitment)
        B == KzgDecodeBlob(blob)
    IN  CASE C.status # "cttEthKzg_Success" -> [status |-> C.status, val |-> 0]
          [] B.status # "cttEthKzg_Success" -> [status |-> B.status, val |-> 0]
          [] OTHER ->
               LET z == FiatShamirChallenge(blob, C.val)
                   y == EvalOn(nthreads, blob, z)
               IN  [status |-> "cttEthKzg_Success",
                    val |-> SerializePoint(KzgQuotient(nthreads, ctx, blob, z, y))]

ctt_eth_kzg_compute_blob_kzg_proof(ctx, blob, commitment) == KzgOpenBlob(0, ctx, blob, commitment)

ctt_eth_kzg_compute_blob_kzg_proof_parallel(tp, ctx, blob, commitment) == KzgOpenBlob(tp.num_threads, ctx, blob, commitment)

ctt_eth_kzg_verify_kzg_proof(ctx, commitment, z_challenge, y_eval_at_challenge, proof) ==
    LET C == KzgDecodePoint(commitment)
        z == KzgDecodeField(z_challenge)
        y == KzgDecodeField(y_eval_at_challenge)
        P == KzgDecodePoint(proof)
    IN  CASE C.status # "cttEthKzg_Success" -> C.status
          [] z.status # "cttEthKzg_Success" -> z.status
          [] y.status # "cttEthKzg_Success" -> y.status
          [] P.status # "cttEthKzg_Success" -> P.status
          [] KzgOpeningHolds(ctx, C.val, z.val, y.val, P.val) -> "cttEthKzg_Success"
          [] OTHER -> "cttEthKzg_VerificationFailure"

ctt_eth_kzg_verify_blob_kzg_proof(ctx, blob, commitment, proof) ==
    LET C == KzgDecodePoint(commitment)
        B == KzgDecodeBlob(blob)
        P == KzgDecodePoint(proof)
    IN  CASE C.status # "cttEthKzg_Success" -> C.status
          [] B.status # "cttEthKzg_Success" -> B.status
          [] P.status # "cttEthKzg_Success" -> P.status
          [] OTHER ->
               LET z == FiatShamirChallenge(blob, C.val)
                   y == EvalPoly(blob, z)
               IN  IF KzgOpeningHolds(ctx, C.val, z, y, P.val)
                   THEN "cttEthKzg_Success"
                   ELSE "cttEthKzg_VerificationFailure"

ctt_eth_kzg_verify_blob_kzg_proof_parallel(tp, ctx, blob, commitment, proof) ==
    ctt_eth_kzg_verify_blob_kzg_proof(ctx, blob, commitment, proof)

\* the powers r, r^2, .. of the nonzero scalar derived from the seed
KzgBlindingCoefs(secure_random_bytes, n) ==
    [i \in 1 .. n |-> FieldPow(1 + (secure_random_bytes % (CurveOrder - 1)), i)]

\* over lo..hi: the sums of r_i * proof_i and of r_i * (C_i - [y_i]G1 + z_i * proof_i)
RECURSIVE KzgProofSum(_, _, _, _)
KzgProofSum(proofs, r, lo, hi) ==
    IF lo > hi THEN 0
    ELSE (r[lo] * KzgDecodePoint(proofs[lo]).val
          + KzgProofSum(proofs, r, lo + 1, hi)) % CurveOrder

RECURSIVE KzgCommitSum(_, _, _, _, _, _)
KzgCommitSum(blobs, commitments, proofs, r, lo, hi) ==
    IF lo > hi THEN 0
    ELSE LET C == KzgDecodePoint(commitments[lo]).val
             P == KzgDecodePoint(proofs[lo]).val
             z == FiatShamirChallenge(blobs[lo], C)
             y == EvalPoly(blobs[lo], z)
         IN  (r[lo] * (FieldSub(C, y) + z * P)
              + KzgCommitSum(blobs, commitments, proofs, r, lo + 1, hi)) % CurveOrder

\* status of decoding the n triples: the first error, or Success
KzgBatchDecode(blobs, commitments, proofs, n) ==
    LET bad(i) == \/ KzgDecodePoint(commitments[i]).status # "cttEthKzg_Success"
                  \/ KzgDecodeBlob(blobs[i]).status # "cttEthKzg_Success"
                  \/ KzgDecodePoint(proofs[i]).status # "cttEthKzg_Success"
        status(i) ==
            CASE KzgDecodePoint(commitments[i]).status # "cttEthKzg_Success" ->
                   KzgDecodePoint(commitments[i]).status
              [] KzgDecodeBlob(blobs[i]).status # "cttEthKzg_Success" ->
                   KzgDecodeBlob(blobs[i]).status
              [] OTHER -> KzgDecodePoint(proofs[i]).status
    IN  IF \E i \in 1 .. n : bad(i)
        THEN status(CHOOSE i \in 1 .. n : bad(i) /\ \A j \in 1 .. (i - 1) : ~bad(j))
        ELSE "cttEthKzg_Success"

ctt_eth_kzg_verify_blob_kzg_proof_batch(ctx, blobs, commitments, proofs, n, secure_random_bytes) ==
    IF n = 0 THEN "cttEthKzg_Success"
    ELSE IF KzgBatchDecode(blobs, commitments, proofs, n) # "cttEthKzg_Success"
         THEN KzgBatchDecode(blobs, commitments, proofs, n)
         ELSE LET r == KzgBlindingCoefs(secure_random_bytes, n)
              IN  IF Pairing(KzgCommitSum(blobs, commitments, proofs, r, 1, n), 1)
                        = Pairing(KzgProofSum(proofs, r, 1, n), ctx.tau)
                  THEN "cttEthKzg_Success"
                  ELSE "cttEthKzg_VerificationFailure"

RECURSIVE KzgMergeProofs(_, _, _, _, _)
KzgMergeProofs(proofs, r, n, nthreads, k) ==
    IF k = nthreads THEN 0
    ELSE (KzgProofSum(proofs, r, ChunkLo(n, nthreads, k), ChunkHi(n, nthreads, k))
          + KzgMergeProofs(proofs, r, n, nthreads, k + 1)) % CurveOrder

RECURSIVE KzgMergeCommits(_, _, _, _, _, _, _)
KzgMergeCommits(blobs, commitments, proofs, r, n, nthreads, k) ==
    IF k = nthreads THEN 0
    ELSE (KzgCommitSum(blobs, commitments, proofs, r,
                       ChunkLo(n, nthreads, k), ChunkHi(n, nthreads, k))
          + KzgMergeCommits(blobs, commitments, proofs, r, n, nthreads, k + 1))
         % CurveOrder

ctt_eth_kzg_verify_blob_kzg_proof_batch_parallel(tp, ctx, blobs, commitments, proofs, n, secure_random_bytes) ==
    IF n = 0 THEN "cttEthKzg_Success"
    ELSE IF KzgBatchDecode(blobs, commitments, proofs, n) # "cttEthKzg_Success"
         THEN KzgBatchDecode(blobs, commitments, proofs, n)
         ELSE LET r == KzgBlindingCoefs(secure_random_bytes, n)
              IN  IF Pairing(KzgMergeCommits(blobs, commitments, proofs, r, n,
                                             tp.num_threads, 0), 1)
                        = Pairing(KzgMergeProofs(proofs, r, n, tp.num_threads, 0),
                                  ctx.tau)
                  THEN "cttEthKzg_Success"
                  ELSE "cttEthKzg_VerificationFailure"

----------------------------------------------------------------------------
(* constantine-core: Threadpool *)

\* Threadpool::new: the wrapper holds the engine's pool
Threadpool_new(num_threads) == [ctx |-> [num_threads |-> num_threads]]

get_private_context(self) == self.ctx

\* the pools the callers create
Threadpools == {Threadpool_new(n) : n \in {1, 2}}

----------------------------------------------------------------------------
(* constantine-ethereum-bls-sig: the wrappers.  Each wrapper yields the    *)
(* set of outcomes a call can have: what the caller gets and the engine    *)
(* calls that were made.  The set has several elements only where the      *)
(* engine is made to read past the end of an array.                        *)

derive_pubkey(skey) == ctt_eth_bls_derive_pubkey(skey)

\* the value of type ()
Unit == <<>>

\* validate_pubkey, taking the point at infinity for valid as the
\* deserializers do
validate_pubkey_AcceptsInfinity(pkey) ==
    LET status == ctt_eth_bls_validate_pubkey(pkey)
    IN  CASE status = "cttCodecEcc_Success" -> Ok(Unit)
          [] status = "cttCodecEcc_PointAtInfinity" -> Ok(Unit)
          [] OTHER -> Err(status)

validate_pubkey(pkey) ==
    LET status == ctt_eth_bls_validate_pubkey(pkey)
    IN  IF status = "cttCodecEcc_Success" THEN Ok(Unit) ELSE Err(status)

validate_signature(sig) ==
    LET status == ctt_eth_bls_validate_signature(sig)
    IN  IF status = "cttCodecEcc_Success" THEN Ok(Unit) ELSE Err(status)

deserialize_seckey(src) ==
    LET r == ctt_eth_bls_deserialize_seckey(src)
    IN  IF r.status = "cttCodecScalar_Success" THEN Ok(r.val) ELSE Err(r.status)

deserialize_pubkey_compressed_unchecked(src) ==
    LET r == ctt_eth_bls_deserialize_pubkey_compressed_unchecked(src)
    IN  CASE r.status = "cttCodecEcc_Success" -> Ok(r.val)
          [] r.status = "cttCodecEcc_PointAtInfinity" -> Ok(r.val)
          [] OTHER -> Err(r.status)

deserialize_signature_compressed_unchecked(src) ==
    LET r == ctt_eth_bls_deserialize_signature_compressed_unchecked(src)
    IN  CASE r.status = "cttCodecEcc_Success" -> Ok(r.val)
          [] r.status = "cttCodecEcc_PointAtInfinity" -> Ok(r.val)
          [] OTHER -> Err(r.status)

deserialize_pubkey_compressed(src) ==
    LET r == ctt_eth_bls_deserialize_pubkey_compressed(src)
    IN  CASE r.status = "cttCodecEcc_Success" -> Ok(r.val)
          [] r.status = "cttCodecEcc_PointAtInfinity" -> Ok(r.val)
          [] OTHER -> Err(r.status)

deserialize_signature_compressed(src) ==
    LET r == ctt_eth_bls_deserialize_signature_compressed(src)
    IN  CASE r.status = "cttCodecEcc_Success" -> Ok(r.val)
          [] r.status = "cttCodecEcc_PointAtInfinity" -> Ok(r.val)
          [] OTHER -> Err(r.status)

\* serialize_pubkey_compressed, with the status mapping of the deserializers
\* turned around: the point at infinity is reported as an error
serialize_pubkey_compressed_InfinityAsErr(pkey) ==
    LET r == ctt_eth_bls_serialize_pubkey_compressed(pkey)
    IN  IF r.status = "cttCodecEcc_Success" /\ pkey # 0
        THEN Ok(r.val) ELSE Err("cttCodecEcc_PointAtInfinity")

serialize_pubkey_compressed(pkey) ==
    LET r == ctt_eth_bls_serialize_pubkey_compressed(pkey)
    IN  IF r.status = "cttCodecEcc_Success" THEN Ok(r.val) ELSE Err(r.status)

serialize_signature_compressed(sig) ==
    LET r == ctt_eth_bls_serialize_signature_compressed(sig)
    IN  IF r.status = "cttCodecEcc_Success" THEN Ok(r.val) ELSE Err(r.status)

\* sign, passing the engine a message length of 0
sign_EmptyMessage(skey, message) == ctt_eth_bls_sign(skey, message, 0)

sign(skey, message) == ctt_eth_bls_sign(skey, message, Len(message))

\* verify, with the status mapping of the KZG wrappers
verify_FailureAsFalse(pkey, message, sig) ==
    LET status == ctt_eth_bls_verify(pkey, message, Len(message), sig)
    IN  {Outcome(CASE status = "cttEthBls_Success" -> Ok(TRUE)
                   [] status = "cttEthBls_VerificationFailure" -> Ok(FALSE)
                   [] OTHER -> Err(status),
                 <<EngineCall("ctt_eth_bls_verify", 1, FALSE, status)>>)}

\* verify, with the status mapping of the point deserializers
verify_InfinityAsOk(pkey, message, sig) ==
    LET status == ctt_eth_bls_verify(pkey, message, Len(message), sig)
    IN  {Outcome(CASE status = "cttEthBls_Success" -> Ok(TRUE)
                   [] status = "cttEthBls_PointAtInfinity" -> Ok(TRUE)
                   [] OTHER -> Err(status),
                 <<EngineCall("ctt_eth_bls_verify", 1, FALSE, status)>>)}

verify(pkey, message, sig) ==
    LET status == ctt_eth_bls_verify(pkey, message, Len(message), sig)
    IN  {Outcome(IF status = "cttEthBls_Success" THEN Ok(TRUE) ELSE Err(status),
                 <<EngineCall("ctt_eth_bls_verify", 1, FALSE, status)>>)}

\* fast_aggregate_verify, taking an empty aggregation for vacuously valid
fast_aggregate_verify_EmptyIsValid(pubkeys, message, signature) ==
    LET status == ctt_eth_bls_fast_aggregate_verify(
                      pubkeys, Len(pubkeys), message, Len(message), signature)
    IN  {Outcome(CASE status = "cttEthBls_Success" -> Ok(TRUE)
                   [] status = "cttEthBls_ZeroLengthAggregation" -> Ok(TRUE)
                   [] OTHER -> Err(status),
                 <<EngineCall("ctt_eth_bls_fast_aggregate_verify",
                              Len(pubkeys), FALSE, status)>>)}

fast_aggregate_verify(pubkeys, message, signature) ==
    LET status == ctt_eth_bls_fast_aggregate_verify(
                      pubkeys, Len(pubkeys), message, Len(message), signature)
    IN  {Outcome(IF status = "cttEthBls_Success" THEN Ok(TRUE) ELSE Err(status),
                 <<EngineCall("ctt_eth_bls_fast_aggregate_verify",
                              Len(pubkeys), FALSE, status)>>)}

\* to_span, with every span's length left at 0
to_span_ZeroLen(vec) == [i \in 1 .. Len(vec) |-> [data |-> vec[i], len |-> 0]]

to_span(vec) == [i \in 1 .. Len(vec) |-> [data |-> vec[i], len |-> Len(vec[i])]]

aggregate_verify(pubkeys, messages, aggregate_sig) ==
    LET msg == messages
        spans == to_span(msg)
        len == Len(pubkeys)
        short == len > Len(spans)
        calls(status) == <<EngineCall("ctt_eth_bls_aggregate_verify", len, short, status)>>
    IN  {LET status == ctt_eth_bls_aggregate_verify(
                           pubkeys, sv, len, aggregate_sig)
         IN  Outcome(IF status = "cttEthBls_Success" THEN Ok(TRUE) ELSE Err(status),
                     calls(status)) : sv \in FfiRead(spans, len, GarbageSpans)}
        \cup (IF short THEN {Outcome(Crash, calls("none"))} ELSE {})

batch_verify(pubkeys, messages, signatures, secure_random_bytes) ==
    LET msg == messages
        spans == to_span(msg)
        len == Len(messages)
        short == len > Len(pubkeys) \/ len > Len(signatures)
        calls(status) == <<EngineCall("ctt_eth_bls_batch_verify", len, short, status)>>
    IN  {LET status == ctt_eth_bls_batch_verify(
                           pv, spans, gv, len, secure_random_bytes)
         IN  Outcome(IF status = "cttEthBls_Success" THEN Ok(TRUE) ELSE Err(status),
                     calls(status)) : pv \in FfiRead(pubkeys, len, GarbagePoints),
                          gv \in FfiRead(signatures, len, GarbagePoints)}
        \cup (IF short THEN {Outcome(Crash, calls("none"))} ELSE {})

batch_verify_parallel(tp, pubkeys, messages, signatures, secure_random_bytes) ==
    LET msg == messages
        spans == to_span(msg)
        len == Len(messages)
        short == len > Len(pubkeys) \/ len > Len(signatures)
        calls(status) == <<EngineCall("ctt_eth_bls_batch_verify_parallel", len, short, status)>>
    IN  {LET status == ctt_eth_bls_batch_verify_parallel(
                           get_private_context(tp), pv, spans, gv, len,
                           secure_random_bytes)
         IN  Outcome(IF status = "cttEthBls_Success" THEN Ok(TRUE) ELSE Err(status),
                     calls(status)) : pv \in FfiRead(pubkeys, len, GarbagePoints),
                          gv \in FfiRead(signatures, len, GarbagePoints)}
        \cup (IF short THEN {Outcome(Crash, calls("none"))} ELSE {})

----------------------------------------------------------------------------
(* constantine-ethereum-kzg: EthKzgContext and its verification methods *)

\* Option<T>
None == <<>>
Some(x) == <<x>>

\* a built context: the engine's context and the optional pool reference
EthKzgContext(ctx, threadpool) == [ctx |-> ctx, threadpool |-> threadpool]

blob_to_kzg_commitment(self, blob) ==
    LET r == ctt_eth_kzg_blob_to_kzg_commitment(self.ctx, blob)
    IN  {Outcome(IF r.status = "cttEthKzg_Success" THEN Ok(r.val) ELSE Err(r.status),
                 <<EngineCall("ctt_eth_kzg_blob_to_kzg_commitment", 1, FALSE, r.status)>>)}

compute_kzg_proof(self, blob, z_challenge) ==
    LET r == ctt_eth_kzg_compute_kzg_proof(self.ctx, blob, z_challenge)
    IN  {Outcome(IF r.status = "cttEthKzg_Success" THEN Ok(r.val) ELSE Err(r.status),
                 <<EngineCall("ctt_eth_kzg_compute_kzg_proof", 1, FALSE, r.status)>>)}

compute_blob_kzg_proof(self, blob, commitment) ==
    LET r == ctt_eth_kzg_compute_blob_kzg_proof(self.ctx, blob, commitment)
    IN  {Outcome(IF r.status = "cttEthKzg_Success" THEN Ok(r.val) ELSE Err(r.status),
                 <<EngineCall("ctt_eth_kzg_compute_blob_kzg_proof", 1, FALSE, r.status)>>)}

\* blob_to_kzg_commitment_parallel, falling back to the serial engine
\* function when the context has no pool
blob_to_kzg_commitment_parallel_SerialFallback(self, blob) ==
    IF self.threadpool = None
    THEN LET r == ctt_eth_kzg_blob_to_kzg_commitment(self.ctx, blob)
         IN  {Outcome(IF r.status = "cttEthKzg_Success" THEN Ok(r.val) ELSE Err(r.status),
                      <<EngineCall("ctt_eth_kzg_blob_to_kzg_commitment", 1, FALSE,
                                   r.status)>>)}
    ELSE LET r == ctt_eth_kzg_blob_to_kzg_commitment_parallel(
                      get_private_context(self.threadpool[1]), self.ctx, blob)
         IN  {Outcome(IF r.status = "cttEthKzg_Success" THEN Ok(r.val) ELSE Err(r.status),
                      <<EngineCall("ctt_eth_kzg_blob_to_kzg_commitment_parallel",
                                   1, FALSE, r.status)>>)}

blob_to_kzg_commitment_parallel(self, blob) ==
    IF self.threadpool = None
    THEN {Outcome(Panic("Threadpool has been set"), <<>>)}
    ELSE LET r == ctt_eth_kzg_blob_to_kzg_commitment_parallel(
                      get_private_context(self.threadpool[1]), self.ctx, blob)
         IN  {Outcome(IF r.status = "cttEthKzg_Success" THEN Ok(r.val) ELSE Err(r.status),
                      <<EngineCall("ctt_eth_kzg_blob_to_kzg_commitment_parallel",
                                   1, FALSE, r.status)>>)}

compute_kzg_proof_parallel(self, blob, z_challenge) ==
    IF self.threadpool = None
    THEN {Outcome(Panic("Threadpool has been set"), <<>>)}
    ELSE LET r == ctt_eth_kzg_compute_kzg_proof_parallel(
                      get_private_context(self.threadpool[1]), self.ctx, blob,
                      z_challenge)
         IN  {Outcome(IF r.status = "cttEthKzg_Success" THEN Ok(r.val) ELSE Err(r.status),
                      <<EngineCall("ctt_eth_kzg_compute_kzg_proof_parallel",
                                   1, FALSE, r.status)>>)}

compute_blob_kzg_proof_parallel(self, blob, commitment) ==
    IF self.threadpool = None
    THEN {Outcome(Panic("Threadpool has been set"), <<>>)}
    ELSE LET r == ctt_eth_kzg_compute_blob_kzg_proof_parallel(
                      get_private_context(self.threadpool[1]), self.ctx, blob,
                      commitment)
         IN  {Outcome(IF r.status = "cttEthKzg_Success" THEN Ok(r.val) ELSE Err(r.status),
                      <<EngineCall("ctt_eth_kzg_compute_blob_kzg_proof_parallel",
                                   1, FALSE, r.status)>>)}

\* verify_kzg_proof, with the challenge and the evaluation handed over in
\* each other's place
verify_kzg_proof_SwappedZY(self, commitment, z_challenge, y_eval_at_challenge, proof) ==
    LET status == ctt_eth_kzg_verify_kzg_proof(
                      self.ctx, commitment, y_eval_at_challenge, z_challenge, proof)
    IN  {Outcome(CASE status = "cttEthKzg_Success" -> Ok(TRUE)
                   [] status = "cttEthKzg_VerificationFailure" -> Ok(FALSE)
                   [] OTHER -> Err(status),
                 <<EngineCall("ctt_eth_kzg_verify_kzg_proof", 1, FALSE, status)>>)}

verify_kzg_proof(self, commitment, z_challenge, y_eval_at_challenge, proof) ==
    LET status == ctt_eth_kzg_verify_kzg_proof(
                      self.ctx, commitment, z_challenge, y_eval_at_challenge, proof)
    IN  {Outcome(CASE status = "cttEthKzg_Success" -> Ok(TRUE)
                   [] status = "cttEthKzg_VerificationFailure" -> Ok(FALSE)
                   [] OTHER -> Err(status),
                 <<EngineCall("ctt_eth_kzg_verify_kzg_proof", 1, FALSE, status)>>)}

verify_blob_kzg_proof(self, blob, commitment, proof) ==
    LET status == ctt_eth_kzg_verify_blob_kzg_proof(self.ctx, blob, commitment, proof)
    IN  {Outcome(CASE status = "cttEthKzg_Success" -> Ok(TRUE)
                   [] status = "cttEthKzg_VerificationFailure" -> Ok(FALSE)
                   [] OTHER -> Err(status),
                 <<EngineCall("ctt_eth_kzg_verify_blob_kzg_proof", 1, FALSE, status)>>)}

\* verify_blob_kzg_proof_batch, with the status mapping of the BLS wrappers
verify_blob_kzg_proof_batch_FailureAsErr(self, blobs, commitments, proofs, secure_random_bytes) ==
    IF Len(blobs) # Len(commitments) \/ Len(blobs) # Len(proofs)
    THEN {Outcome(Err("cttEthKzg_InputsLengthsMismatch"), <<>>)}
    ELSE LET status == ctt_eth_kzg_verify_blob_kzg_proof_batch(
                           self.ctx, blobs, commitments, proofs, Len(blobs),
                           secure_random_bytes)
         IN  {Outcome(CASE status = "cttEthKzg_Success" -> Ok(TRUE)
                        [] OTHER -> Err(status),
                      <<EngineCall("ctt_eth_kzg_verify_blob_kzg_proof_batch",
                                   Len(blobs), FALSE, status)>>)}

verify_blob_kzg_proof_batch(self, blobs, commitments, proofs, secure_random_bytes) ==
    IF Len(blobs) # Len(commitments) \/ Len(blobs) # Len(proofs)
    THEN {Outcome(Err("cttEthKzg_InputsLengthsMismatch"), <<>>)}
    ELSE LET status == ctt_eth_kzg_verify_blob_kzg_proof_batch(
                           self.ctx, blobs, commitments, proofs, Len(blobs),
                           secure_random_bytes)
         IN  {Outcome(CASE status = "cttEthKzg_Success" -> Ok(TRUE)
                        [] status = "cttEthKzg_VerificationFailure" -> Ok(FALSE)
                        [] OTHER -> Err(status),
                      <<EngineCall("ctt_eth_kzg_verify_blob_kzg_proof_batch",
                                   Len(blobs), FALSE, status)>>)}

\* verify_blob_kzg_proof_parallel, handing the engine the proof where it
\* expects the commitment and the commitment where it expects the proof
verify_blob_kzg_proof_parallel_SwappedArgs(self, blob, commitment, proof) ==
    IF self.threadpool = None
    THEN {Outcome(Panic("Threadpool has been set"), <<>>)}
    ELSE LET status == ctt_eth_kzg_verify_blob_kzg_proof_parallel(
                           get_private_context(self.threadpool[1]), self.ctx,
                           blob, proof, commitment)
         IN  {Outcome(CASE status = "cttEthKzg_Success" -> Ok(TRUE)
                        [] status = "cttEthKzg_VerificationFailure" -> Ok(FALSE)
                        [] OTHER -> Err(status),
                      <<EngineCall("ctt_eth_kzg_verify_blob_kzg_proof_parallel",
                                   1, FALSE, status)>>)}

verify_blob_kzg_proof_parallel(self, blob, commitment, proof) ==
    IF self.threadpool = None
    THEN {Outcome(Panic("Threadpool has been set"), <<>>)}
    ELSE LET status == ctt_eth_kzg_verify_blob_kzg_proof_parallel(
                           get_private_context(self.threadpool[1]), self.ctx,
                           blob, commitment, proof)
         IN  {Outcome(CASE status = "cttEthKzg_Success" -> Ok(TRUE)
                        [] status = "cttEthKzg_VerificationFailure" -> Ok(FALSE)
                        [] OTHER -> Err(status),
                      <<EngineCall("ctt_eth_kzg_verify_blob_kzg_proof_parallel",
                                   1, FALSE, status)>>)}

\* verify_blob_kzg_proof_batch_parallel, taking the pool before it compares
\* the lengths (as the other parallel methods take it first)
verify_blob_kzg_proof_batch_parallel_PoolFirst(self, blobs, commitments, proofs, secure_random_bytes) ==
    IF self.threadpool = None
    THEN {Outcome(Panic("Threadpool has been set"), <<>>)}
    ELSE IF Len(blobs) # Len(commitments) \/ Len(blobs) # Len(proofs)
    THEN {Outcome(Err("cttEthKzg_InputsLengthsMismatch"), <<>>)}
    ELSE LET status == ctt_eth_kzg_verify_blob_kzg_proof_batch_parallel(
                           get_private_context(self.threadpool[1]), self.ctx,
                           blobs, commitments, proofs, Len(blobs),
                           secure_random_bytes)
         IN  {Outcome(CASE status = "cttEthKzg_Success" -> Ok(TRUE)
                        [] status = "cttEthKzg_VerificationFailure" -> Ok(FALSE)
                        [] OTHER -> Err(status),
                      <<EngineCall("ctt_eth_kzg_verify_blob_kzg_proof_batch_parallel",
                                   Len(blobs), FALSE, status)>>)}

verify_blob_kzg_proof_batch_parallel(self, blobs, commitments, proofs, secure_random_bytes) ==
    IF Len(blobs) # Len(commitments) \/ Len(blobs) # Len(proofs)
    THEN {Outcome(Err("cttEthKzg_InputsLengthsMismatch"), <<>>)}
    ELSE IF self.threadpool = None
    THEN {Outcome(Panic("Threadpool has been set"), <<>>)}
    ELSE LET status == ctt_eth_kzg_verify_blob_kzg_proof_batch_parallel(
                           get_private_context(self.threadpool[1]), self.ctx,
                           blobs, commitments, proofs, Len(blobs),
                           secure_random_bytes)
         IN  {Outcome(CASE status = "cttEthKzg_Success" -> Ok(TRUE)
                        [] status = "cttEthKzg_VerificationFailure" -> Ok(FALSE)
                        [] OTHER -> Err(status),
                      <<EngineCall("ctt_eth_kzg_verify_blob_kzg_proof_batch_parallel",
                                   Len(blobs), FALSE, status)>>)}

----------------------------------------------------------------------------
(* Lifetimes: the engine's resources and the wrappers that hold them *)

Threads == {1, 2}
PoolHandles == 1 .. MaxPools
SetupPointers == 1 .. MaxSetups
NullPtr == 0

\* the engine's record of a thread pool: whether it runs, the thread it was
\* started on, and how many times it was shut down
AbsentPool == [state |-> "absent", home |-> 0, shutdowns |-> 0]

ctt_threadpool_new(pl, handle, thread) ==
    [pl EXCEPT ![handle] = [state |-> "active", home |-> thread, shutdowns |-> 0]]

ctt_threadpool_shutdown(pl, handle) ==
    [pl EXCEPT ![handle].state = "shutdown",
               ![handle].shutdowns = IF @ < 2 THEN @ + 1 ELSE @]

\* the engine's record of a trusted-setup context: whether its memory is
\* allocated, and how many times it was deleted
AbsentSetup == [state |-> "absent", deletes |-> 0]

\* trusted-setup files: the reference file, no file, a damaged file, and a
\* path with an interior NUL byte
Paths == {[file |-> "good", nul |-> FALSE], [file |-> "missing", nul |-> FALSE],
          [file |-> "corrupt", nul |-> FALSE], [file |-> "good", nul |-> TRUE]}

FreeSetups(st) == {q \in SetupPointers : st[q].state = "absent"}

\* loads the file into freshly allocated memory; nothing stays allocated
\* unless the status is Success
ctt_eth_trusted_setup_load(st, c_path) ==
    CASE c_path.file = "missing" ->
           [status |-> "cttEthTS_MissingOrInaccessibleFile", ctx |-> NullPtr, setups |-> st]
      [] c_path.file = "corrupt" ->
           [status |-> "cttEthTS_InvalidFile", ctx |-> NullPtr, setups |-> st]
      [] OTHER ->
           LET q == CHOOSE q \in FreeSetups(st) : \A o \in FreeSetups(st) : q <= o
           IN  [status |-> "cttEthTS_Success", ctx |-> q,
                setups |-> [st EXCEPT ![q].state = "loaded"]]

ctt_eth_trusted_setup_delete(st, ctx) ==
    IF ctx \in SetupPointers
    THEN [st EXCEPT ![ctx].state = "deleted",
                    ![ctx].deletes = IF @ < 2 THEN @ + 1 ELSE @]
    ELSE st

EthKzgContextBuilder(ctx, threadpool) == [ctx |-> ctx, threadpool |-> threadpool]

\* EthKzgContext::builder()
builder == EthKzgContextBuilder(None, None)

\* CString::new fails on a path with an interior NUL byte
CString_new(raw_path) == IF raw_path.nul THEN Err("NulError") ELSE Ok(raw_path)

\* load_trusted_setup of the builder, keeping the builder on a failed load
EthKzgContextBuilder_load_trusted_setup_KeepsBuilder(self, file_path, st) ==
    LET c_path == CString_new(file_path)
    IN  IF c_path.tag = "Err" THEN [ret |-> Ok(self), setups |-> st]
        ELSE LET r == ctt_eth_trusted_setup_load(st, c_path.val)
             IN  [ret |-> IF r.status = "cttEthTS_Success"
                          THEN Ok(EthKzgContextBuilder(Some(r.ctx), self.threadpool))
                          ELSE Ok(self),
                  setups |-> r.setups]

\* yields the result and the engine's setups after the call
EthKzgContextBuilder_load_trusted_setup(self, file_path, st) ==
    LET c_path == CString_new(file_path)
    IN  IF c_path.tag = "Err"
        THEN [ret |-> Err("cttEthTS_MissingOrInaccessibleFile"), setups |-> st]
        ELSE LET r == ctt_eth_trusted_setup_load(st, c_path.val)
             IN  [ret |-> IF r.status = "cttEthTS_Success"
                          THEN Ok(EthKzgContextBuilder(Some(r.ctx), self.threadpool))
                          ELSE Err(r.status),
                  setups |-> r.setups]

\* set_threadpool, copying nothing from the builder it is given
set_threadpool_DropsSetup(self, tp) == EthKzgContextBuilder(None, Some(tp))

set_threadpool(self, tp) == EthKzgContextBuilder(self.ctx, Some(tp))

\* build, handing out a context with a null pointer when nothing was loaded
build_NullWhenUnloaded(self) ==
    Ok(EthKzgContext(IF self.ctx = None THEN NullPtr ELSE self.ctx[1], self.threadpool))

build(self) ==
    IF self.ctx = None THEN Err("cttEthTS_MissingOrInaccessibleFile")
    ELSE Ok(EthKzgContext(self.ctx[1], self.threadpool))

EthKzgContext_load_trusted_setup(file_path, st) ==
    LET l == EthKzgContextBuilder_load_trusted_setup(builder, file_path, st)
    IN  IF l.ret.tag = "Err" THEN l
        ELSE [ret |-> IF build(l.ret.val).tag = "Ok" THEN build(l.ret.val)
                      ELSE Panic("Trusted setup should be loaded properly"),
              setups |-> l.setups]

\* Drop for EthKzgContext, also shutting down the pool the context refers to
EthKzgContext_drop_ShutsPoolDown(self, st, pl) ==
    [setups |-> ctt_eth_trusted_setup_delete(st, self.ctx),
     pools |-> IF self.threadpool = None THEN pl
               ELSE ctt_threadpool_shutdown(pl, self.threadpool[1].ctx)]

\* Drop for EthKzgContext, deleting the engine's context a second time
EthKzgContext_drop_DeletesTwice(self, st, pl) ==
    [setups |-> ctt_eth_trusted_setup_delete(
                    ctt_eth_trusted_setup_delete(st, self.ctx), self.ctx),
     pools |-> pl]

\* Drop for EthKzgContext: the engine's setups and pools after the drop
EthKzgContext_drop(self, st, pl) ==
    [setups |-> ctt_eth_trusted_setup_delete(st, self.ctx), pools |-> pl]

\* Drop for Threadpool
Threadpool_drop(self, pl) == ctt_threadpool_shutdown(pl, self.ctx)

\* a caller's variable: empty, or holding a builder or a context, with the
\* thread the value lives on
NoWrapper == [kind |-> "none", val |-> builder, home |-> 0]
Wrappers == {1, 2}

\* the value borrows the pool for its whole life, were the field a raw
\* pointer instead of a reference
Borrows_RawPointer(w, tp) == FALSE

\* the value borrows the pool for its whole life (threadpool: Option<&'tp Threadpool>)
Borrows(w, tp) == w.kind # "none" /\ w.val.threadpool = Some(tp)

\* a value is reachable from every thread, were Threadpool declared Sync
CanUse_Shared(thread, home) == TRUE

\* a value holding a raw pointer is neither Send nor Sync: only the thread it
\* was created on can reach it
CanUse(thread, home) == thread = home

NoCall == [op |-> "none", ctx |-> NullPtr, pool |-> NullPtr]

----------------------------------------------------------------------------
(* The callers: any sequence of calls, each with any arguments *)

NoPool == [ctx |-> [num_threads |-> 0]]
NoPrior == [tag |-> "none", val |-> FALSE, err |-> "none"]
NoArgs == [pubkeys |-> <<>>, messages |-> <<>>, signatures |-> <<>>,
           seed |-> 0, tp |-> NoPool, src |-> 0]

\* the values arrays of aggregate and batch calls are filled with
BatchPoints == {0, 1, 2}
BatchMessages == {<<>>, <<0>>}

Init ==
    /\ pc = "idle"
    /\ op = "none"
    /\ args = NoArgs
    /\ ret = NoPrior
    /\ engine = <<>>
    /\ prior = NoPrior
    /\ pools = [h \in PoolHandles |-> AbsentPool]
    /\ setups = [q \in SetupPointers |-> AbsentSetup]
    /\ wrappers = [w \in Wrappers |-> NoWrapper]
    /\ running = [t \in Threads |-> NoCall]

Returned(name, a, o) ==
    /\ pc' = "done"
    /\ op' = name
    /\ args' = a
    /\ ret' = o.ret
    /\ engine' = o.engine
    /\ UNCHANGED lifeVars

Verify ==
    /\ pc = "idle"
    /\ \E pkey \in Points, message \in Messages, sig \in Points :
         \E o \in verify(pkey, message, sig) :
            Returned("verify",
                     [NoArgs EXCEPT !.pubkeys = <<pkey>>, !.messages = <<message>>,
                                    !.signatures = <<sig>>], o)
    /\ prior' = NoPrior

FastAggregateVerify ==
    /\ pc = "idle"
    /\ \E pubkeys \in SeqsUpTo(Points, MaxBatch), message \in Messages,
          signature \in Points :
         \E o \in fast_aggregate_verify(pubkeys, message, signature) :
            Returned("fast_aggregate_verify",
                     [NoArgs EXCEPT !.pubkeys = pubkeys, !.messages = <<message>>,
                                    !.signatures = <<signature>>], o)
    /\ prior' = NoPrior

AggregateVerify ==
    /\ pc = "idle"
    /\ \E pubkeys \in SeqsUpTo(BatchPoints, MaxBatch),
          messages \in SeqsUpTo(BatchMessages, MaxBatch),
          aggregate_sig \in Points :
         \E o \in aggregate_verify(pubkeys, messages, aggregate_sig) :
            Returned("aggregate_verify",
                     [NoArgs EXCEPT !.pubkeys = pubkeys, !.messages = messages,
                                    !.signatures = <<aggregate_sig>>], o)
    /\ prior' = NoPrior

BatchVerify ==
    /\ pc = "idle"
    /\ \E pubkeys \in SeqsUpTo(BatchPoints, MaxBatch),
          messages \in SeqsUpTo(BatchMessages, MaxBatch),
          signatures \in SeqsUpTo(BatchPoints, MaxBatch),
          secure_random_bytes \in Seeds :
         \E o \in batch_verify(pubkeys, messages, signatures, secure_random_bytes) :
            Returned("batch_verify",
                     [NoArgs EXCEPT !.pubkeys = pubkeys, !.messages = messages,
                                    !.signatures = signatures,
                                    !.seed = secure_random_bytes], o)
    /\ prior' = NoPrior

BatchVerifyParallel ==
    /\ pc = "idle"
    /\ \E tp \in Threadpools,
          pubkeys \in SeqsUpTo(BatchPoints, MaxBatch),
          messages \in SeqsUpTo(BatchMessages, MaxBatch),
          signatures \in SeqsUpTo(BatchPoints, MaxBatch),
          secure_random_bytes \in Seeds :
         \E o \in batch_verify_parallel(tp, pubkeys, messages, signatures,
                                        secure_random_bytes) :
            Returned("batch_verify_parallel",
                     [NoArgs EXCEPT !.pubkeys = pubkeys, !.messages = messages,
                                    !.signatures = signatures,
                                    !.seed = secure_random_bytes, !.tp = tp], o)
    /\ prior' = NoPrior

\* the caller of batch_verify repeats the call on the thread pool, with the
\* same arguments (as t_batch_verify does)
BatchVerifyThenParallel ==
    /\ pc = "done"
    /\ op = "batch_verify"
    /\ ret.tag # "Crash"
    /\ \E tp \in Threadpools :
         \E o \in batch_verify_parallel(tp, args.pubkeys, args.messages,
                                        args.signatures, args.seed) :
            Returned("batch_verify_parallel", [args EXCEPT !.tp = tp], o)
    /\ prior' = ret

\* the caller of batch_verify goes on to the next batch (t_batch_verify: the
\* next vector file), of one triple here; the wrapper takes whatever seed
\* the caller hands it, the one of the batch before included
BatchVerifyNext ==
    /\ pc = "done"
    /\ op = "batch_verify"
    /\ prior = NoPrior
    /\ ret.tag # "Crash"
    /\ \E pubkeys \in SeqsOfLen(BatchPoints, 1),
          messages \in SeqsOfLen(BatchMessages, 1),
          signatures \in SeqsOfLen(BatchPoints, 1),
          secure_random_bytes \in Seeds :
         \E o \in batch_verify(pubkeys, messages, signatures, secure_random_bytes) :
            Returned("batch_verify",
                     [NoArgs EXCEPT !.pubkeys = pubkeys, !.messages = messages,
                                    !.signatures = signatures,
                                    !.seed = secure_random_bytes], o)
    /\ prior' = ret

\* the contexts a caller can hold: built with or without a thread pool
Contexts ==
    {EthKzgContext(TrustedSetup, None)}
    \cup {EthKzgContext(TrustedSetup, Some(tp)) : tp \in Threadpools}

NoKzgArgs == [self |-> EthKzgContext(TrustedSetup, None), blobs |-> <<>>,
              commitments |-> <<>>, proofs |-> <<>>, z |-> 0, y |-> 0, seed |-> 0]

\* the values arrays of batch calls are filled with: a blob with its
\* commitment and proof, a blob with a non-canonical element, a well-formed
\* point that is not the commitment or proof, and malformed encodings
BatchBlobs == {<<1, 2>>, <<CurveOrder, 0>>}
BatchCommitments == {SerializePoint(3), InfinityEncoding, EncInvalid}
BatchProofs == {SerializePoint(2), InfinityEncoding, EncNotOnCurve}

VerifyKzgProof ==
    /\ pc = "idle"
    /\ \E self \in Contexts, commitment \in PointEncodings,
          z \in RawFieldElements, y \in RawFieldElements,
          proof \in PointEncodings :
         \E o \in verify_kzg_proof(self, commitment, z, y, proof) :
            Returned("verify_kzg_proof",
                     [NoKzgArgs EXCEPT !.self = self, !.commitments = <<commitment>>,
                                       !.z = z, !.y = y, !.proofs = <<proof>>], o)
    /\ prior' = NoPrior

VerifyBlobKzgProof ==
    /\ pc = "idle"
    /\ \E self \in Contexts, blob \in Blobs, commitment \in PointEncodings,
          proof \in PointEncodings :
         \E o \in verify_blob_kzg_proof(self, blob, commitment, proof) :
            Returned("verify_blob_kzg_proof",
                     [NoKzgArgs EXCEPT !.self = self, !.blobs = <<blob>>,
                                       !.commitments = <<commitment>>,
                                       !.proofs = <<proof>>], o)
    /\ prior' = NoPrior

VerifyBlobKzgProofParallel ==
    /\ pc = "idle"
    /\ \E self \in Contexts, blob \in Blobs, commitment \in PointEncodings,
          proof \in PointEncodings :
         \E o \in verify_blob_kzg_proof_parallel(self, blob, commitment, proof) :
            Returned("verify_blob_kzg_proof_parallel",
                     [NoKzgArgs EXCEPT !.self = self, !.blobs = <<blob>>,
                                       !.commitments = <<commitment>>,
                                       !.proofs = <<proof>>], o)
    /\ prior' = NoPrior

VerifyBlobKzgProofBatch ==
    /\ pc = "idle"
    /\ \E self \in Contexts,
          blobs \in SeqsUpTo(BatchBlobs, MaxBatch),
          commitments \in SeqsUpTo(BatchCommitments, MaxBatch),
          proofs \in SeqsUpTo(BatchProofs, MaxBatch),
          secure_random_bytes \in Seeds :
         \E o \in verify_blob_kzg_proof_batch(self, blobs, commitments, proofs,
                                              secure_random_bytes) :
            Returned("verify_blob_kzg_proof_batch",
                     [NoKzgArgs EXCEPT !.self = self, !.blobs = blobs,
                                       !.commitments = commitments,
                                       !.proofs = proofs,
                                       !.seed = secure_random_bytes], o)
    /\ prior' = NoPrior

VerifyBlobKzgProofBatchParallel ==
    /\ pc = "idle"
    /\ \E self \in Contexts,
          blobs \in SeqsUpTo(BatchBlobs, MaxBatch),
          commitments \in SeqsUpTo(BatchCommitments, MaxBatch),
          proofs \in SeqsUpTo(BatchProofs, MaxBatch),
          secure_random_bytes \in Seeds :
         \E o \in verify_blob_kzg_proof_batch_parallel(self, blobs, commitments,
                                                       proofs, secure_random_bytes) :
            Returned("verify_blob_kzg_proof_batch_parallel",
                     [NoKzgArgs EXCEPT !.self = self, !.blobs = blobs,
                                       !.commitments = commitments,
                                       !.proofs = proofs,
                                       !.seed = secure_random_bytes], o)
    /\ prior' = NoPrior

BlobToKzgCommitment ==
    /\ pc = "idle"
    /\ \E self \in Contexts, blob \in Blobs :
         \E o \in blob_to_kzg_commitment(self, blob) :
            Returned("blob_to_kzg_commitment",
                     [NoKzgArgs EXCEPT !.self = self, !.blobs = <<blob>>], o)
    /\ prior' = NoPrior

ComputeKzgProof ==
    /\ pc = "idle"
    /\ \E self \in Contexts, blob \in Blobs, z \in RawFieldElements :
         \E o \in compute_kzg_proof(self, blob, z) :
            Returned("compute_kzg_proof",
                     [NoKzgArgs EXCEPT !.self = self, !.blobs = <<blob>>, !.z = z], o)
    /\ prior' = NoPrior

ComputeBlobKzgProof ==
    /\ pc = "idle"
    /\ \E self \in Contexts, blob \in Blobs, commitment \in PointEncodings :
         \E o \in compute_blob_kzg_proof(self, blob, commitment) :
            Returned("compute_blob_kzg_proof",
                     [NoKzgArgs EXCEPT !.self = self, !.blobs = <<blob>>,
                                       !.commitments = <<commitment>>], o)
    /\ prior' = NoPrior

\* the methods of EthKzgContext, and the parallel method of each that has one
KzgOps == {"blob_to_kzg_commitment", "compute_kzg_proof", "verify_kzg_proof",
           "compute_blob_kzg_proof", "verify_blob_kzg_proof",
           "verify_blob_kzg_proof_batch"}

ParallelTwin ==
    [blob_to_kzg_commitment |-> "blob_to_kzg_commitment_parallel",
     compute_kzg_proof |-> "compute_kzg_proof_parallel",
     compute_blob_kzg_proof |-> "compute_blob_kzg_proof_parallel",
     verify_blob_kzg_proof |-> "verify_blob_kzg_proof_parallel",
     verify_blob_kzg_proof_batch |-> "verify_blob_kzg_proof_batch_parallel"]

\* the call of a parallel method on the arguments a of a serial call
CallParallel(name, a) ==
    CASE name = "blob_to_kzg_commitment_parallel" ->
           blob_to_kzg_commitment_parallel(a.self, a.blobs[1])
      [] name = "compute_kzg_proof_parallel" ->
           compute_kzg_proof_parallel(a.self, a.blobs[1], a.z)
      [] name = "compute_blob_kzg_proof_parallel" ->
           compute_blob_kzg_proof_parallel(a.self, a.blobs[1], a.commitments[1])
      [] name = "verify_blob_kzg_proof_parallel" ->
           verify_blob_kzg_proof_parallel(a.self, a.blobs[1], a.commitments[1],
                                          a.proofs[1])
      [] name = "verify_blob_kzg_proof_batch_parallel" ->
           verify_blob_kzg_proof_batch_parallel(a.self, a.blobs, a.commitments,
                                                a.proofs, a.seed)

\* the caller of a serial method repeats the call with the parallel method,
\* on the same context and the same arguments (as the _parallel tests do)
KzgThenParallel ==
    /\ pc = "done"
    /\ op \in DOMAIN ParallelTwin
    /\ \E o \in CallParallel(ParallelTwin[op], args) :
         Returned(ParallelTwin[op], args, o)
    /\ prior' = ret

\* the call of a serial method on the arguments a
CallSerial(name, a) ==
    CASE name = "blob_to_kzg_commitment" -> blob_to_kzg_commitment(a.self, a.blobs[1])
      [] name = "compute_kzg_proof" -> compute_kzg_proof(a.self, a.blobs[1], a.z)
      [] name = "verify_kzg_proof" ->
           verify_kzg_proof(a.self, a.commitments[1], a.z, a.y, a.proofs[1])
      [] name = "compute_blob_kzg_proof" ->
           compute_blob_kzg_proof(a.self, a.blobs[1], a.commitments[1])
      [] name = "verify_blob_kzg_proof" ->
           verify_blob_kzg_proof(a.self, a.blobs[1], a.commitments[1], a.proofs[1])
      [] name = "verify_blob_kzg_proof_batch" ->
           verify_blob_kzg_proof_batch(a.self, a.blobs, a.commitments, a.proofs, a.seed)

\* every method of EthKzgContext takes &self: after the call the caller
\* holds the value it held before
BorrowShared_OtherSetup(self) == EthKzgContext([tau |-> self.ctx.tau + 1], self.threadpool)

BorrowShared(self) == self

\* the arguments of a call made between two commitments: one blob with one
\* commitment and one proof, good or malformed
BetweenArgs(self) ==
    {[NoKzgArgs EXCEPT !.self = self, !.blobs = <<blob>>, !.commitments = <<commitment>>,
                       !.proofs = <<proof>>, !.z = z] :
        blob \in BatchBlobs, commitment \in BatchCommitments, proof \in BatchProofs,
        z \in {0, CurveOrder}}

\* the caller of blob_to_kzg_commitment goes on to call any other method,
\* serial or parallel, on the same context (a panic ends the caller) ..
CallBetween ==
    /\ pc = "done"
    /\ op = "blob_to_kzg_commitment"
    /\ prior = NoPrior
    /\ \E name \in KzgOps \cup {ParallelTwin[n] : n \in DOMAIN ParallelTwin} :
          \E a \in BetweenArgs(args.self) :
             \E o \in IF name \in KzgOps THEN CallSerial(name, a)
                       ELSE CallParallel(name, a) :
                /\ o.ret.tag # "Panic"
                /\ pc' = "between"
                /\ args' = [args EXCEPT !.self = BorrowShared(a.self)]
                /\ engine' = engine \o o.engine
                /\ prior' = ret
                /\ ret' = o.ret
                /\ UNCHANGED <<op, lifeVars>>

\* .. and then commits to the first blob again
CommitAgain ==
    /\ pc = "between"
    /\ \E o \in blob_to_kzg_commitment(args.self, args.blobs[1]) :
          Returned("blob_to_kzg_commitment", args, Outcome(o.ret, engine \o o.engine))
    /\ UNCHANGED prior

\* the caller of compute_kzg_proof commits to the same blob and verifies the
\* opening it was given: verify_kzg_proof(commitment, z, y, proof)
VerifyComputedOpening ==
    /\ pc = "done"
    /\ op = "compute_kzg_proof"
    /\ ret.tag = "Ok"
    /\ \E c \in blob_to_kzg_commitment(args.self, args.blobs[1]) :
          /\ c.ret.tag = "Ok"
          /\ \E o \in verify_kzg_proof(args.self, c.ret.val, args.z, ret.val[2], ret.val[1]) :
                Returned("verify_kzg_proof",
                         [args EXCEPT !.commitments = <<c.ret.val>>, !.y = ret.val[2],
                                      !.proofs = <<ret.val[1]>>],
                         Outcome(o.ret, c.engine \o o.engine))
    /\ prior' = ret

\* the deserializers of public keys and of signatures, by name
Deserializers ==
    [deserialize_pubkey_compressed |->
        [src \in PointEncodings |-> deserialize_pubkey_compressed(src)],
     deserialize_pubkey_compressed_unchecked |->
        [src \in PointEncodings |-> deserialize_pubkey_compressed_unchecked(src)],
     deserialize_signature_compressed |->
        [src \in PointEncodings |-> deserialize_signature_compressed(src)],
     deserialize_signature_compressed_unchecked |->
        [src \in PointEncodings |-> deserialize_signature_compressed_unchecked(src)]]

PubKeyDeserializers ==
    {"deserialize_pubkey_compressed", "deserialize_pubkey_compressed_unchecked"}

\* a caller decodes a public key or a signature from bytes (as t_deserialize_g1
\* and t_deserialize_g2 do); the bytes are kept in args.src
Deserialize ==
    /\ pc = "idle"
    /\ \E name \in DOMAIN Deserializers, src \in PointEncodings :
         Returned(name, [NoArgs EXCEPT !.src = src],
                  Outcome(Deserializers[name][src], <<>>))
    /\ prior' = NoPrior

\* a caller decodes a secret key from bytes
DeserializeSecKey ==
    /\ pc = "idle"
    /\ \E src \in RawSecKeys :
         Returned("deserialize_seckey", [NoArgs EXCEPT !.src = src],
                  Outcome(deserialize_seckey(src), <<>>))
    /\ prior' = NoPrior

\* a caller validates the value that decoding gave it
ValidateDecoded ==
    /\ pc = "done"
    /\ op \in DOMAIN Deserializers
    /\ ret.tag = "Ok"
    /\ IF op \in PubKeyDeserializers
       THEN Returned("validate_pubkey", args, Outcome(validate_pubkey(ret.val), <<>>))
       ELSE Returned("validate_signature", args,
                     Outcome(validate_signature(ret.val), <<>>))
    /\ prior' = ret

\* and, when decoding returned Ok, encodes the value again
SerializeDecoded ==
    /\ pc = "done"
    /\ op \in DOMAIN Deserializers
    /\ ret.tag = "Ok"
    /\ Returned(IF op \in PubKeyDeserializers
                THEN "serialize_pubkey_compressed"
                ELSE "serialize_signature_compressed",
                args,
                Outcome(IF op \in PubKeyDeserializers
                        THEN serialize_pubkey_compressed(ret.val)
                        ELSE serialize_signature_compressed(ret.val), <<>>))
    /\ prior' = ret

\* the caller has looked at the result; nothing is kept between calls
Forget ==
    /\ pc = "done"
    /\ pc' = "idle"
    /\ op' = "none"
    /\ args' = NoArgs
    /\ ret' = NoPrior
    /\ engine' = <<>>
    /\ prior' = NoPrior
    /\ UNCHANGED lifeVars

Next ==
    \/ Verify
    \/ FastAggregateVerify
    \/ AggregateVerify
    \/ BatchVerify
    \/ BatchVerifyParallel
    \/ BatchVerifyThenParallel
    \/ BatchVerifyNext
    \/ Deserialize
    \/ SerializeDecoded
    \/ ValidateDecoded
    \/ Forget

\* the callers of the BLS signature API
Spec == Init /\ [][Next]_vars

NextKzg ==
    \/ VerifyKzgProof
    \/ VerifyBlobKzgProof
    \/ VerifyBlobKzgProofParallel
    \/ VerifyBlobKzgProofBatch
    \/ VerifyBlobKzgProofBatchParallel
    \/ BlobToKzgCommitment
    \/ ComputeKzgProof
    \/ ComputeBlobKzgProof
    \/ KzgThenParallel
    \/ VerifyComputedOpening
    \/ CallBetween
    \/ CommitAgain
    \/ Forget

\* the callers of the KZG API
SpecKzg == Init /\ [][NextKzg]_vars

----------------------------------------------------------------------------
(* constantine-halo2-zal: CttEngine, the multi-scalar multiplication       *)
(* accelerator of halo2curves, and the engine's kernels behind it          *)

\* the curves CttEngine implements MsmAccel for
ZalCurves == {"bn256", "pallas", "vesta"}

\* the order of each curve's group in this model (the groups of the build
\* have three different prime orders of about 2^254); a scalar is a number
\* below the order and a point is its discrete logarithm
GroupOrder == [bn256 |-> 5, pallas |-> 7, vesta |-> 3]

\* sum of coefs[i] * points[i] over the first len items
RECURSIVE LinearCombination(_, _, _)
LinearCombination(coefs, points, len) ==
    IF len = 0 THEN 0
    ELSE coefs[len] * points[len] + LinearCombination(coefs, points, len - 1)

\* the engine's kernels: each reads the memory it is given as scalars and
\* points of its own curve and adds in its own group
ctt_bn254_snarks_g1_prj_multi_scalar_mul_fr_coefs_vartime_parallel(tp, coefs, points, len) ==
    LinearCombination(coefs, points, len) % GroupOrder.bn256

ctt_vesta_ec_jac_multi_scalar_mul_fr_coefs_vartime_parallel(tp, coefs, points, len) ==
    LinearCombination(coefs, points, len) % GroupOrder.vesta

\* halo2curves' own multi-scalar multiplication (msm_best), in the group of
\* curve C
msm_best(C, coeffs, bases) ==
    LinearCombination(coeffs, bases, Len(bases)) % GroupOrder[C]

\* a value returned by a function that has no Result type
Returns(v) == [tag |-> "Returns", val |-> v, err |-> "none"]

\* CttEngine(Threadpool)
CttEngine_new(num_threads) == <<Threadpool_new(num_threads)>>

\* msm, with the last pair left out of the length handed to the engine
msm_DropsLast(C, self, coeffs, bases) ==
    IF Len(coeffs) # Len(bases)
    THEN {Outcome(Panic("assertion failed: coeffs.len() == bases.len()"), <<>>)}
    ELSE {Outcome(Returns(ctt_bn254_snarks_g1_prj_multi_scalar_mul_fr_coefs_vartime_parallel(
                              get_private_context(self[1]), coeffs, bases,
                              IF Len(bases) = 0 THEN 0 ELSE Len(bases) - 1)),
                  <<>>)}

\* MsmAccel<C>::msm for CttEngine, one impl per curve
msm(C, self, coeffs, bases) ==
    IF Len(coeffs) # Len(bases)
    THEN {Outcome(Panic("assertion failed: coeffs.len() == bases.len()"), <<>>)}
    ELSE CASE C = "bn256" ->
                {Outcome(Returns(ctt_bn254_snarks_g1_prj_multi_scalar_mul_fr_coefs_vartime_parallel(
                                     get_private_context(self[1]), coeffs, bases, Len(bases))),
                         <<EngineCall("ctt_bn254_snarks_g1_prj_multi_scalar_mul_fr_coefs_vartime_parallel",
                                      Len(bases), FALSE, "none")>>)}
           [] C = "pallas" ->
                {Outcome(Returns(ctt_vesta_ec_jac_multi_scalar_mul_fr_coefs_vartime_parallel(
                                     get_private_context(self[1]), coeffs, bases, Len(bases))),
                         <<EngineCall("ctt_vesta_ec_jac_multi_scalar_mul_fr_coefs_vartime_parallel",
                                      Len(bases), FALSE, "none")>>)}
           [] C = "vesta" ->
                {Outcome(Returns(ctt_vesta_ec_jac_multi_scalar_mul_fr_coefs_vartime_parallel(
                                     get_private_context(self[1]), coeffs, bases, Len(bases))),
                         <<EngineCall("ctt_vesta_ec_jac_multi_scalar_mul_fr_coefs_vartime_parallel",
                                      Len(bases), FALSE, "none")>>)}

\* the caching API: a descriptor keeps the slice it was made from
get_coeffs_descriptor(self, coeffs) == [raw |-> coeffs]
get_base_descriptor(self, base) == [raw |-> base]

msm_with_cached_scalars(C, self, coeffs, base) == msm(C, self, coeffs.raw, base)
msm_with_cached_base(C, self, coeffs, base) == msm(C, self, coeffs, base.raw)
msm_with_cached_inputs(C, self, coeffs, base) == msm(C, self, coeffs.raw, base.raw)

\* the scalars and the points of curve C a caller passes: 0, 1, 2 and the
\* largest one
ZalValues(C) == {0, 1, 2, GroupOrder[C] - 1}

\* let engine = CttEngine::new(n); let e1 = engine.msm(scalars, points);
Msm ==
    /\ pc = "idle"
    /\ \E C \in ZalCurves, n \in {1, 2} :
         \E coeffs \in SeqsUpTo(ZalValues(C), MaxBatch),
            bases \in SeqsUpTo(ZalValues(C), MaxBatch) :
           \E o \in msm(C, CttEngine_new(n), coeffs, bases) :
              Returned("msm", [curve |-> C, self |-> CttEngine_new(n),
                               coeffs |-> coeffs, bases |-> bases], o)
    /\ prior' = NoPrior

\* the caller of msm repeats the call through the caching API, on
\* descriptors made from the same slices (as run_msm_zal does)
MsmCached ==
    /\ pc = "done"
    /\ op = "msm"
    /\ ret.tag = "Returns"
    /\ LET cd == get_coeffs_descriptor(args.self, args.coeffs)
           bd == get_base_descriptor(args.self, args.bases)
       IN  \/ \E o \in msm_with_cached_scalars(args.curve, args.self, cd, args.bases) :
                Returned("msm_with_cached_scalars", args, o)
           \/ \E o \in msm_with_cached_base(args.curve, args.self, args.coeffs, bd) :
                Returned("msm_with_cached_base", args, o)
           \/ \E o \in msm_with_cached_inputs(args.curve, args.self, cd, bd) :
                Returned("msm_with_cached_inputs", args, o)
    /\ prior' = ret

NextZal ==
    \/ Msm
    \/ MsmCached
    \/ Forget

\* the callers of the accelerator
SpecZal == Init /\ [][NextZal]_vars

----------------------------------------------------------------------------
(* constantine-ethereum-evm-precompiles: the wrappers of the engine's EVM  *)
(* functions                                                               *)

\* a byte of an input, scaled down to four values; as a 32-byte length
\* word of the modexp header the largest one is a length over the engine's
\* limit
EvmBytes == 0 .. 3
EvmInputs == SeqsUpTo(EvmBytes, MaxInputLen)

\* the item i of an input, zero when the input is shorter
PadRead(inputs, i) == IF i <= Len(inputs) THEN inputs[i] ELSE 0

\* the lengths of base, exponent and modulus announced by the header
ModexpHeader(inputs) == [i \in 1 .. 3 |-> PadRead(inputs, i)]

\* the big-endian number in the items from + 1 .. from + len of the data
\* that follows the header
RECURSIVE ModexpOperand(_, _, _)
ModexpOperand(inputs, from, len) ==
    IF len = 0 THEN 0
    ELSE ModexpOperand(inputs, from, len - 1) * (Cardinality(EvmBytes))
         + PadRead(inputs, 3 + from + len)

RECURSIVE PowMod(_, _, _)
PowMod(b, e, m) == IF e = 0 THEN 1 % m ELSE (b * PowMod(b, e - 1, m)) % m

\* the number v as len big-endian bytes
RECURSIVE ToBytes(_, _)
ToBytes(v, len) ==
    IF len = 0 THEN <<>>
    ELSE Append(ToBytes(v \div Cardinality(EvmBytes), len - 1), v % Cardinality(EvmBytes))

ctt_eth_evm_modexp_result_size(inputs) ==
    LET h == ModexpHeader(inputs)
    IN  IF \E i \in 1 .. 3 : h[i] = Cardinality(EvmBytes) - 1
        THEN [status |-> "cttEVM_InvalidInputSize", size |-> 0]
        ELSE [status |-> "cttEVM_Success", size |-> h[3]]

\* writes the result into the buffer r of r_len bytes; r is left as it was
\* when the call fails
ctt_eth_evm_modexp(r, r_len, inputs) ==
    LET h == ModexpHeader(inputs)
        B == ModexpOperand(inputs, 0, h[1])
        E == ModexpOperand(inputs, h[1], h[2])
        M == ModexpOperand(inputs, h[1] + h[2], h[3])
    IN  CASE \E i \in 1 .. 3 : h[i] = Cardinality(EvmBytes) - 1 ->
               [status |-> "cttEVM_InvalidInputSize", r |-> r]
          [] r_len # h[3] -> [status |-> "cttEVM_InvalidOutputSize", r |-> r]
          [] OTHER ->
               [status |-> "cttEVM_Success",
                r |-> IF M = 0 THEN ToBytes(0, r_len) ELSE ToBytes(PowMod(B, E, M), r_len)]

\* the sum of two points of a group of order 3, each in one item (zero: the
\* point at infinity; the largest byte: not on the curve); the buffer is
\* written only on success
ctt_eth_evm_bn254_g1add(r_len, inputs) ==
    CASE Len(inputs) > 2 -> [status |-> "cttEVM_InvalidInputSize", r |-> <<>>]
      [] r_len # 1 -> [status |-> "cttEVM_InvalidOutputSize", r |-> <<>>]
      [] \E i \in 1 .. 2 : PadRead(inputs, i) = Cardinality(EvmBytes) - 1 ->
           [status |-> "cttEVM_PointNotOnCurve", r |-> <<>>]
      [] OTHER ->
           [status |-> "cttEVM_Success",
            r |-> <<(PadRead(inputs, 1) + PadRead(inputs, 2)) % 3>>]

\* evm_modexp, going on to the computation when the size could not be found
evm_modexp_IgnoresSizeStatus(inputs) ==
    LET s == ctt_eth_evm_modexp_result_size(inputs)
        result == [i \in 1 .. s.size |-> 0]
        m == ctt_eth_evm_modexp(result, Len(result), inputs)
    IN  {Outcome(IF m.status = "cttEVM_Success" THEN Ok(m.r) ELSE Err(m.status),
                 <<EngineCall("ctt_eth_evm_modexp_result_size", 0, FALSE, s.status),
                   EngineCall("ctt_eth_evm_modexp", Len(result), FALSE, m.status)>>)}

evm_modexp(inputs) ==
    LET s == ctt_eth_evm_modexp_result_size(inputs)
    IN  IF s.status # "cttEVM_Success"
        THEN {Outcome(Err(s.status),
                      <<EngineCall("ctt_eth_evm_modexp_result_size", 0, FALSE, s.status)>>)}
        ELSE LET result == [i \in 1 .. s.size |-> 0]
                 m == ctt_eth_evm_modexp(result, Len(result), inputs)
             IN  {Outcome(IF m.status = "cttEVM_Success" THEN Ok(m.r) ELSE Err(m.status),
                          <<EngineCall("ctt_eth_evm_modexp_result_size", 0, FALSE, s.status),
                            EngineCall("ctt_eth_evm_modexp", Len(result), FALSE,
                                       m.status)>>)}

\* evm_bn254_g1add, handing the buffer back whatever the status
evm_bn254_g1add_AlwaysOk(inputs) ==
    LET a == ctt_eth_evm_bn254_g1add(1, inputs)
    IN  {Outcome(Ok(a.r), <<EngineCall("ctt_eth_evm_bn254_g1add", 1, FALSE, a.status)>>)}

evm_bn254_g1add(inputs) ==
    LET a == ctt_eth_evm_bn254_g1add(1, inputs)
    IN  {Outcome(IF a.status = "cttEVM_Success" THEN Ok(a.r) ELSE Err(a.status),
                 <<EngineCall("ctt_eth_evm_bn254_g1add", 1, FALSE, a.status)>>)}

EvmModexp ==
    /\ pc = "idle"
    /\ \E inputs \in EvmInputs :
         \E o \in evm_modexp(inputs) :
            Returned("evm_modexp", [NoArgs EXCEPT !.src = inputs], o)
    /\ prior' = NoPrior

EvmBn254G1Add ==
    /\ pc = "idle"
    /\ \E inputs \in EvmInputs :
         \E o \in evm_bn254_g1add(inputs) :
            Returned("evm_bn254_g1add", [NoArgs EXCEPT !.src = inputs], o)
    /\ prior' = NoPrior

NextEvm ==
    \/ EvmModexp
    \/ EvmBn254G1Add
    \/ Forget

\* the callers of the EVM precompiles
SpecEvm == Init /\ [][NextEvm]_vars

NextOut ==
    \/ Deserialize
    \/ DeserializeSecKey
    \/ BlobToKzgCommitment
    \/ ComputeKzgProof
    \/ ComputeBlobKzgProof
    \/ KzgThenParallel
    \/ EvmModexp
    \/ EvmBn254G1Add
    \/ Forget

\* the callers of the wrappers that give the engine a buffer to fill
SpecOut == Init /\ [][NextOut]_vars

----------------------------------------------------------------------------
(* The owners: threads that create, use and drop pools, builders and       *)
(* contexts.  A step is one statement of a thread; a thread inside an      *)
(* engine call takes no other step until the call returns.                 *)

\* what the last statement was, on which value, and what it returned
Did(name, a, r) ==
    /\ op' = name
    /\ args' = a
    /\ ret' = r
    /\ UNCHANGED <<pc, engine, prior>>

LifeArgs(w, self, file_path) == [w |-> w, self |-> self, path |-> file_path]

NoPath == [file |-> "none", nul |-> FALSE]

\* a statement whose result no property looks at
DidQuietly == Did("none", NoArgs, NoPrior)

Idle(t) == running[t] = NoCall

\* let tp = Threadpool::new(n)
ThreadpoolNew ==
    \E t \in Threads, h \in PoolHandles :
       /\ Idle(t)
       /\ pools[h].state = "absent"
       /\ \A g \in PoolHandles : g < h => pools[g].state # "absent"
       /\ pools' = ctt_threadpool_new(pools, h, t)
       /\ DidQuietly
       /\ UNCHANGED <<setups, wrappers, running>>

\* tp goes out of scope; the borrow checker allows it only once nothing
\* borrows tp any more
ThreadpoolDrop ==
    \E t \in Threads, h \in PoolHandles :
       /\ Idle(t)
       /\ pools[h].state = "active"
       /\ CanUse(t, pools[h].home)
       /\ \A w \in Wrappers : ~Borrows(wrappers[w], [ctx |-> h])
       /\ \A u \in Threads : running[u].pool # h
       /\ pools' = Threadpool_drop([ctx |-> h], pools)
       /\ Did("Threadpool_drop", LifeArgs(0, [ctx |-> h], NoPath), NoPrior)
       /\ UNCHANGED <<setups, wrappers, running>>

\* let b = EthKzgContext::builder()
Builder ==
    \E t \in Threads, w \in Wrappers :
       /\ Idle(t)
       /\ wrappers[w].kind = "none"
       /\ wrappers' = [wrappers EXCEPT ![w] = [kind |-> "builder", val |-> builder, home |-> t]]
       /\ DidQuietly
       /\ UNCHANGED <<pools, setups, running>>

\* let b = b.load_trusted_setup(path)?  (b is moved into the call; on Err
\* nothing is left of it)
BuilderLoadTrustedSetup ==
    \E t \in Threads, w \in Wrappers, file_path \in Paths :
       /\ Idle(t)
       /\ wrappers[w].kind = "builder"
       /\ CanUse(t, wrappers[w].home)
       /\ (file_path.file = "good" /\ ~file_path.nul) => FreeSetups(setups) # {}
       /\ LET r == EthKzgContextBuilder_load_trusted_setup(wrappers[w].val, file_path, setups)
          IN  /\ setups' = r.setups
              /\ wrappers' = [wrappers EXCEPT ![w] =
                                 IF r.ret.tag = "Ok"
                                 THEN [kind |-> "builder", val |-> r.ret.val, home |-> t]
                                 ELSE NoWrapper]
              /\ Did("EthKzgContextBuilder_load_trusted_setup",
                     LifeArgs(w, wrappers[w].val, file_path), r.ret)
       /\ UNCHANGED <<pools, running>>

\* let b = b.set_threadpool(&tp)
SetThreadpool ==
    \E t \in Threads, w \in Wrappers, h \in PoolHandles :
       /\ Idle(t)
       /\ wrappers[w].kind = "builder"
       /\ CanUse(t, wrappers[w].home)
       /\ pools[h].state = "active"
       /\ CanUse(t, pools[h].home)
       /\ wrappers' = [wrappers EXCEPT ![w].val = set_threadpool(@, [ctx |-> h])]
       /\ DidQuietly
       /\ UNCHANGED <<pools, setups, running>>

\* let ctx = b.build()   (b is moved into the call)
Build ==
    \E t \in Threads, w \in Wrappers :
       /\ Idle(t)
       /\ wrappers[w].kind = "builder"
       /\ CanUse(t, wrappers[w].home)
       /\ LET r == build(wrappers[w].val)
          IN  /\ wrappers' = [wrappers EXCEPT ![w] =
                                 IF r.tag = "Ok"
                                 THEN [kind |-> "context", val |-> r.val, home |-> t]
                                 ELSE NoWrapper]
              /\ Did("build", LifeArgs(w, wrappers[w].val, NoPath), r)
       /\ UNCHANGED <<pools, setups, running>>

\* b goes out of scope; EthKzgContextBuilder has no Drop
DropBuilder ==
    \E t \in Threads, w \in Wrappers :
       /\ Idle(t)
       /\ wrappers[w].kind = "builder"
       /\ CanUse(t, wrappers[w].home)
       /\ wrappers' = [wrappers EXCEPT ![w] = NoWrapper]
       /\ DidQuietly
       /\ UNCHANGED <<pools, setups, running>>

\* ctx goes out of scope
DropContext ==
    \E t \in Threads, w \in Wrappers :
       /\ Idle(t)
       /\ wrappers[w].kind = "context"
       /\ CanUse(t, wrappers[w].home)
       /\ LET r == EthKzgContext_drop(wrappers[w].val, setups, pools)
          IN  /\ setups' = r.setups
              /\ pools' = r.pools
       /\ wrappers' = [wrappers EXCEPT ![w] = NoWrapper]
       /\ Did("EthKzgContext_drop", LifeArgs(w, wrappers[w].val, NoPath), NoPrior)
       /\ UNCHANGED running

\* let ctx = EthKzgContext::load_trusted_setup(path)?
LoadTrustedSetup ==
    \E t \in Threads, w \in Wrappers, file_path \in Paths :
       /\ Idle(t)
       /\ wrappers[w].kind = "none"
       /\ (file_path.file = "good" /\ ~file_path.nul) => FreeSetups(setups) # {}
       /\ LET r == EthKzgContext_load_trusted_setup(file_path, setups)
          IN  /\ setups' = r.setups
              /\ wrappers' = [wrappers EXCEPT ![w] =
                                 IF r.ret.tag = "Ok"
                                 THEN [kind |-> "context", val |-> r.ret.val, home |-> t]
                                 ELSE NoWrapper]
              /\ Did("EthKzgContext_load_trusted_setup",
                     LifeArgs(w, builder, file_path), r.ret)
       /\ UNCHANGED <<pools, running>>

\* ctx.blob_to_kzg_commitment(..) or another serial method: the thread
\* enters the engine with the context's pointer
BeginSerial ==
    \E t \in Threads, w \in Wrappers :
       /\ Idle(t)
       /\ wrappers[w].kind = "context"
       /\ CanUse(t, wrappers[w].home)
       /\ running' = [running EXCEPT ![t] =
                         [op |-> "blob_to_kzg_commitment",
                          ctx |-> wrappers[w].val.ctx, pool |-> NullPtr]]
       /\ DidQuietly
       /\ UNCHANGED <<pools, setups, wrappers>>

\* ctx.blob_to_kzg_commitment_parallel(..) or another _parallel method: the
\* thread enters the engine with the context's pointer and pool, or panics
BeginParallel ==
    \E t \in Threads, w \in Wrappers :
       /\ Idle(t)
       /\ wrappers[w].kind = "context"
       /\ CanUse(t, wrappers[w].home)
       /\ IF wrappers[w].val.threadpool = None
          THEN /\ Did("blob_to_kzg_commitment_parallel",
                      LifeArgs(w, wrappers[w].val, NoPath),
                      Panic("Threadpool has been set"))
               /\ UNCHANGED running
          ELSE /\ running' = [running EXCEPT ![t] =
                                [op |-> "blob_to_kzg_commitment_parallel",
                                 ctx |-> wrappers[w].val.ctx,
                                 pool |-> get_private_context(wrappers[w].val.threadpool[1])]]
               /\ DidQuietly
       /\ UNCHANGED <<pools, setups, wrappers>>

\* batch_verify_parallel(&tp, ..), or msm on an engine that owns tp: the
\* thread enters the engine with the pool
BeginOnPool ==
    \E t \in Threads, h \in PoolHandles :
       /\ Idle(t)
       /\ pools[h].state = "active"
       /\ CanUse(t, pools[h].home)
       /\ running' = [running EXCEPT ![t] =
                         [op |-> "batch_verify_parallel", ctx |-> NullPtr,
                          pool |-> get_private_context([ctx |-> h])]]
       /\ DidQuietly
       /\ UNCHANGED <<pools, setups, wrappers>>

\* the engine call returns to the thread
EndCall ==
    \E t \in Threads :
       /\ ~Idle(t)
       /\ running' = [running EXCEPT ![t] = NoCall]
       /\ Did("returned", LifeArgs(0, EthKzgContext(running[t].ctx,
                                      IF running[t].pool = NullPtr THEN None
                                      ELSE Some([ctx |-> running[t].pool])), NoPath),
              NoPrior)
       /\ UNCHANGED <<pools, setups, wrappers>>

NextLife ==
    \/ ThreadpoolNew
    \/ ThreadpoolDrop
    \/ Builder
    \/ BuilderLoadTrustedSetup
    \/ SetThreadpool
    \/ Build
    \/ DropBuilder
    \/ DropContext
    \/ LoadTrustedSetup
    \/ BeginSerial
    \/ BeginParallel
    \/ BeginOnPool
    \/ EndCall

\* the owners of pools, builders and contexts
SpecLife == Init /\ [][NextLife]_vars

----------------------------------------------------------------------------
(* Properties *)

BlsOps == {"verify", "fast_aggregate_verify", "aggregate_verify",
           "batch_verify", "batch_verify_parallel"}

KzgVerifyOps == {"verify_kzg_proof", "verify_blob_kzg_proof",
                 "verify_blob_kzg_proof_parallel", "verify_blob_kzg_proof_batch",
                 "verify_blob_kzg_proof_batch_parallel"}

\* C1: aggregate_verify called with len(pubkeys) # len(messages) fails with
\* InputsLengthsMismatch, without any engine call (so none with a count that
\* exceeds the length of an array).
C1_AggregateVerifyRejectsMismatch ==
    (pc = "done" /\ op = "aggregate_verify"
        /\ Len(args.pubkeys) # Len(args.messages))
    => (ret = Err("cttEthBls_InputsLengthsMismatch") /\ engine = <<>>)

\* C2: batch_verify and batch_verify_parallel called with pubkeys, messages
\* and signatures that are not all of one length return an error before any
\* engine call; the engine never reads N triples from an array shorter than N.
C2_BatchVerifyRejectsMismatch ==
    (pc = "done" /\ op \in {"batch_verify", "batch_verify_parallel"})
    => /\ (Len(args.pubkeys) # Len(args.messages)
              \/ Len(args.signatures) # Len(args.messages))
          => (ret.tag = "Err" /\ engine = <<>>)
       /\ \A i \in 1 .. Len(engine) : ~engine[i].short

\* C3: verify_blob_kzg_proof_batch and verify_blob_kzg_proof_batch_parallel
\* return Err(InputsLengthsMismatch) whenever the three lengths are not all
\* equal, with no engine call; the parallel one also on a context without a
\* pool.
C3_KzgBatchRejectsMismatch ==
    (pc = "done"
        /\ op \in {"verify_blob_kzg_proof_batch",
                   "verify_blob_kzg_proof_batch_parallel"}
        /\ (Len(args.blobs) # Len(args.commitments)
              \/ Len(args.blobs) # Len(args.proofs)))
    => (ret = Err("cttEthKzg_InputsLengthsMismatch") /\ engine = <<>>)

C3_Witness ==
    /\ pc = "done"
    /\ op = "verify_blob_kzg_proof_batch_parallel"
    /\ args.self.threadpool = None
    /\ Len(args.blobs) = Len(args.commitments)
    /\ Len(args.blobs) # Len(args.proofs)
    /\ ret = Err("cttEthKzg_InputsLengthsMismatch")

\* C4: fast_aggregate_verify with no public keys, and aggregate_verify with
\* no public keys and no messages, fail with ZeroLengthAggregation whatever
\* the message and the signature; they never return Ok(true).
C4_EmptyAggregateRejected ==
    (pc = "done"
        /\ \/ (op = "fast_aggregate_verify" /\ args.pubkeys = <<>>)
           \/ (op = "aggregate_verify" /\ args.pubkeys = <<>>
                  /\ args.messages = <<>>))
    => ret = Err("cttEthBls_ZeroLengthAggregation")

C4_Witness ==
    /\ pc = "done"
    /\ op = "fast_aggregate_verify"
    /\ args.pubkeys = <<>>
    /\ args.signatures = <<0>>
    /\ ret = Err("cttEthBls_ZeroLengthAggregation")

\* C5: every BLS verification wrapper that returns gives Ok(true) exactly
\* when the engine reported Success and Err(status) for any other status
\* (never Ok(false)); verify fails with VerificationFailure when the pairing
\* equation does not hold.
C5_BlsStatusMapping ==
    (pc = "done" /\ op \in BlsOps /\ ret.tag # "Crash")
    => /\ Len(engine) = 1
       /\ ret = IF engine[1].status = "cttEthBls_Success"
                THEN Ok(TRUE) ELSE Err(engine[1].status)
       /\ (op = "verify" /\ args.pubkeys[1] # 0 /\ args.signatures[1] # 0
             /\ Pairing(args.pubkeys[1], hash_to_curve(args.messages[1]))
                   # Pairing(1, args.signatures[1]))
          => ret = Err("cttEthBls_VerificationFailure")

C5_Witness ==
    /\ pc = "done"
    /\ op = "verify"
    /\ args.pubkeys[1] # 0
    /\ args.signatures[1] # 0
    /\ engine[1].status = "cttEthBls_VerificationFailure"
    /\ ret = Err("cttEthBls_VerificationFailure")

\* what the deserializers return as Ok for the point-at-infinity encoding
DecodedInfinity(results) == {r.val : r \in {x \in results : x.tag = "Ok"}}

IdentityPubKeys ==
    {0} \cup DecodedInfinity({deserialize_pubkey_compressed(InfinityEncoding),
                              deserialize_pubkey_compressed_unchecked(InfinityEncoding)})

IdentitySignatures ==
    {0} \cup DecodedInfinity({deserialize_signature_compressed(InfinityEncoding),
                              deserialize_signature_compressed_unchecked(InfinityEncoding)})

\* C6: verify on a public key or a signature that is the identity point,
\* such as the values the deserializers return as Ok for the
\* point-at-infinity encoding, fails with PointAtInfinity.
C6_VerifyRejectsInfinity ==
    (pc = "done" /\ op = "verify"
        /\ (args.pubkeys[1] \in IdentityPubKeys
              \/ args.signatures[1] \in IdentitySignatures))
    => ret = Err("cttEthBls_PointAtInfinity")

C6_Witness ==
    /\ pc = "done"
    /\ op = "verify"
    /\ deserialize_pubkey_compressed(InfinityEncoding).tag = "Ok"
    /\ args.pubkeys[1] = deserialize_pubkey_compressed(InfinityEncoding).val
    /\ args.signatures[1] # 0
    /\ ret = Err("cttEthBls_PointAtInfinity")

\* C7: the KZG verification methods return Ok(true) iff the engine status is
\* Success, Ok(false) iff it is VerificationFailure and Err(status) for any
\* other status; they never return Err(VerificationFailure).
C7_KzgStatusMapping ==
    (pc = "done" /\ op \in KzgVerifyOps)
    => /\ ret # Err("cttEthKzg_VerificationFailure")
       /\ Len(engine) = 1
          => ret = CASE engine[1].status = "cttEthKzg_Success" -> Ok(TRUE)
                     [] engine[1].status = "cttEthKzg_VerificationFailure" -> Ok(FALSE)
                     [] OTHER -> Err(engine[1].status)
       /\ Len(engine) = 0 => ret.tag \in {"Err", "Panic"}

C7_Witness ==
    /\ pc = "done"
    /\ op = "verify_blob_kzg_proof_batch"
    /\ Len(args.blobs) = 2
    /\ Len(engine) = 1
    /\ engine[1].status = "cttEthKzg_VerificationFailure"
    /\ ret = Ok(FALSE)

\* C8: for every secret key sk that deserialize_seckey accepts and every
\* message m, verify(derive_pubkey(sk), m, sign(sk, m)) returns Ok(true).
C8_SignThenVerify ==
    (pc = "done" /\ op = "verify")
    => \A raw \in RawSecKeys :
          LET skey == deserialize_seckey(raw)
          IN  (skey.tag = "Ok"
                 /\ args.pubkeys[1] = derive_pubkey(skey.val)
                 /\ args.signatures[1] = sign(skey.val, args.messages[1]))
              => ret = Ok(TRUE)

C8_Witness ==
    /\ pc = "done"
    /\ op = "verify"
    /\ args.messages[1] # <<>>
    /\ deserialize_seckey(3).tag = "Ok"
    /\ args.pubkeys[1] = derive_pubkey(deserialize_seckey(3).val)
    /\ args.signatures[1] = sign(deserialize_seckey(3).val, args.messages[1])
    /\ ret = Ok(TRUE)

\* each triple of the batch passes verify on its own
EachTripleVerifies(a) ==
    \A i \in 1 .. Len(a.messages) :
       \A o \in verify(a.pubkeys[i], a.messages[i], a.signatures[i]) :
          o.ret = Ok(TRUE)

\* C9: for every non-empty set of triples that each pass verify, batch_verify
\* over the set returns Ok(true), whatever the seed.
C9_BatchOfValidTriples ==
    (pc = "done" /\ op = "batch_verify"
        /\ Len(args.messages) > 0
        /\ Len(args.pubkeys) = Len(args.messages)
        /\ Len(args.signatures) = Len(args.messages)
        /\ EachTripleVerifies(args))
    => ret = Ok(TRUE)

C9_Witness ==
    /\ pc = "done"
    /\ op = "batch_verify"
    /\ Len(args.messages) = 2
    /\ Len(args.pubkeys) = 2
    /\ Len(args.signatures) = 2
    /\ args.pubkeys[1] # args.pubkeys[2]
    /\ args.messages[1] # <<>>
    /\ args.seed = 0
    /\ EachTripleVerifies(args)
    /\ ret = Ok(TRUE)

\* C10: for all inputs and any pool size, batch_verify_parallel returns what
\* batch_verify returned for the same inputs.
C10_ParallelSameAsSerial ==
    (pc = "done" /\ op = "batch_verify_parallel" /\ prior.tag # "none")
    => ret = prior

\* C20: for every encoding b of a public key or a signature that a
\* deserializer accepts (the point-at-infinity encoding included), serializing
\* the decoded value returns Ok(b).
C20_SerializeAfterDeserialize ==
    (pc = "done"
        /\ op \in {"serialize_pubkey_compressed", "serialize_signature_compressed"}
        /\ prior.tag = "Ok")
    => ret = Ok(args.src)

C20_Witness ==
    /\ pc = "done"
    /\ op = "serialize_pubkey_compressed"
    /\ prior.tag = "Ok"
    /\ args.src = InfinityEncoding
    /\ ret = Ok(InfinityEncoding)

KzgParallelOps == {ParallelTwin[o] : o \in DOMAIN ParallelTwin}

\* C11 as stated: every KZG operation has a _parallel twin, and for identical
\* inputs the twin returns exactly the result of the serial operation.
C11_EveryTwinSameAsSerial ==
    /\ (pc = "done" /\ op \in KzgOps) => op \in DOMAIN ParallelTwin
    /\ (pc = "done" /\ op \in KzgParallelOps /\ prior.tag # "none")
       => ret = prior

\* C11, amended: every KZG operation but verify_kzg_proof has a _parallel
\* twin, which runs on the thread pool attached to the context; on a context
\* that has a pool the twin returns exactly the result of the serial
\* operation, and on a context without one it panics (the batch twin returns
\* Err(InputsLengthsMismatch), as the serial one, when the lengths differ).
C11_TwinSameAsSerialOnPool ==
    /\ KzgOps \ DOMAIN ParallelTwin = {"verify_kzg_proof"}
    /\ (pc = "done" /\ op \in KzgParallelOps /\ prior.tag # "none")
       => IF args.self.threadpool # None THEN ret = prior
          ELSE IF op = "verify_blob_kzg_proof_batch_parallel"
                     /\ prior = Err("cttEthKzg_InputsLengthsMismatch")
               THEN ret = prior
               ELSE ret = Panic("Threadpool has been set")

C11_Witness ==
    /\ pc = "done"
    /\ op = "compute_kzg_proof_parallel"
    /\ args.self.threadpool # None
    /\ args.self.threadpool[1].ctx.num_threads = 2
    /\ prior.tag = "Ok"
    /\ prior.val[1] # InfinityEncoding
    /\ ret = prior

\* the contexts the callers hold, and the engine calls in progress on a context
LiveContexts == {w \in Wrappers : wrappers[w].kind = "context"}
CallsOnContext == {t \in Threads : running[t] # NoCall /\ running[t].op # "batch_verify_parallel"}
CallsOnPool(h) == {t \in Threads : running[t] # NoCall /\ running[t].pool = h}

Loaded(ctx) == ctx \in SetupPointers /\ setups[ctx].state = "loaded"

\* C12: every EthKzgContext a caller holds, and every context an operation
\* runs on, has an engine context that a successful load returned and that
\* has not been deleted.
C12_OperationsOnlyOnLoaded ==
    /\ \A w \in LiveContexts : Loaded(wrappers[w].val.ctx)
    /\ \A t \in CallsOnContext : Loaded(running[t].ctx)

C12_Witness ==
    /\ setups[1].state = "deleted"
    /\ \E t \in CallsOnContext : running[t].ctx = 2 /\ Loaded(2)

\* C13: the drop of an EthKzgContext deletes its engine context exactly
\* once; no engine context is deleted twice, and no context or operation
\* uses a pointer after its delete.
C13_DeleteExactlyOnce ==
    /\ \A q \in SetupPointers :
          /\ setups[q].deletes <= 1
          /\ setups[q].state = "deleted" <=> setups[q].deletes = 1
    /\ op = "EthKzgContext_drop"
          => (args.self.ctx \in SetupPointers /\ setups[args.self.ctx].deletes = 1)
    /\ \A w \in LiveContexts :
          wrappers[w].val.ctx \in SetupPointers
             => setups[wrappers[w].val.ctx].deletes = 0
    /\ \A t \in CallsOnContext :
          running[t].ctx \in SetupPointers => setups[running[t].ctx].deletes = 0

C13_Witness ==
    /\ op = "EthKzgContext_drop"
    /\ setups[args.self.ctx].deletes = 1
    /\ \E w \in LiveContexts : wrappers[w].val.ctx # args.self.ctx

\* C14: once every builder and every context has been dropped, every engine
\* context that a successful load acquired has been released (exactly once).
C14_NoSetupOutlivesWrappers ==
    (\A w \in Wrappers : wrappers[w].kind = "none")
    => \A q \in SetupPointers :
          setups[q].state # "absent"
             => (setups[q].state = "deleted" /\ setups[q].deletes = 1)

\* the path cannot be converted, or the engine's load does not succeed on it
BadPath(file_path) == file_path.nul \/ file_path.file # "good"

\* C15: a load on a path that cannot be converted or that the engine does
\* not load returns Err(status) and leaves no builder or context behind;
\* build on a builder that holds no loaded setup returns
\* Err(MissingOrInaccessibleFile) and no context.
C15_LoadAllOrNothing ==
    /\ (op \in {"EthKzgContextBuilder_load_trusted_setup",
                 "EthKzgContext_load_trusted_setup"} /\ BadPath(args.path))
       => /\ ret = Err(IF args.path.file = "corrupt" /\ ~args.path.nul
                       THEN "cttEthTS_InvalidFile"
                       ELSE "cttEthTS_MissingOrInaccessibleFile")
          /\ wrappers[args.w].kind = "none"
    /\ (op = "build" /\ args.self.ctx = None)
       => /\ ret = Err("cttEthTS_MissingOrInaccessibleFile")
          /\ wrappers[args.w].kind = "none"
    /\ \A w \in Wrappers :
          /\ (wrappers[w].kind = "builder" /\ wrappers[w].val.ctx # None)
                => Loaded(wrappers[w].val.ctx[1])
          /\ wrappers[w].kind = "context" => Loaded(wrappers[w].val.ctx)

C15_Witness ==
    /\ op = "EthKzgContextBuilder_load_trusted_setup"
    /\ args.path.file = "corrupt"
    /\ args.self.ctx # None
    /\ ret = Err("cttEthTS_InvalidFile")
    /\ wrappers[args.w].kind = "none"

\* C16: while a builder or a context that refers to a pool is live, and
\* while a parallel operation runs on a pool, that pool has not been shut
\* down.
C16_PoolOutlivesBorrowers ==
    /\ \A w \in Wrappers :
          (wrappers[w].kind # "none" /\ wrappers[w].val.threadpool # None)
             => pools[wrappers[w].val.threadpool[1].ctx].state = "active"
    /\ \A t \in Threads :
          (running[t] # NoCall /\ running[t].pool # NullPtr)
             => pools[running[t].pool].state = "active"

C16_Witness ==
    /\ op = "Threadpool_drop"
    /\ pools[args.self.ctx].state = "shutdown"
    /\ \E w \in LiveContexts :
          /\ wrappers[w].val.threadpool # None
          /\ wrappers[w].val.threadpool[1].ctx # args.self.ctx

\* C17: a pool is shut down exactly once, by the drop of the Threadpool;
\* dropping a context that refers to it and returning from a parallel
\* operation leave it running, and it runs during every operation on it.
C17_PoolShutDownOnceByOwner ==
    /\ \A h \in PoolHandles :
          /\ pools[h].shutdowns <= 1
          /\ pools[h].state = "shutdown" <=> pools[h].shutdowns = 1
          /\ CallsOnPool(h) # {} => pools[h].state = "active"
    /\ op = "Threadpool_drop" => pools[args.self.ctx].shutdowns = 1
    /\ (op \in {"EthKzgContext_drop", "returned"} /\ args.self.threadpool # None)
       => pools[args.self.threadpool[1].ctx].state = "active"

C17_Witness ==
    /\ op = "EthKzgContext_drop"
    /\ args.self.threadpool # None
    /\ pools[args.self.threadpool[1].ctx].state = "active"
    /\ \E h \in PoolHandles : pools[h].shutdowns = 1

\* C18: on any thread at most one Threadpool is active at a time.
C18_OneActivePoolPerThread ==
    \A t \in Threads :
       Cardinality({h \in PoolHandles :
                      pools[h].state = "active" /\ pools[h].home = t}) <= 1

\* C19: at most one parallel operation is in progress on a pool at any time,
\* and a thread inside one does nothing else until it has returned.
C19_PoolEnteredByOneCall ==
    /\ \A h \in PoolHandles : Cardinality(CallsOnPool(h)) <= 1
    /\ \A h \in PoolHandles : \A t \in CallsOnPool(h) : CanUse(t, pools[h].home)

C19_Witness ==
    /\ CallsOnPool(1) # {}
    /\ CallsOnPool(2) # {}
    /\ \E t \in CallsOnPool(1) : running[t].op = "blob_to_kzg_commitment_parallel"

\* the opening compute_kzg_proof gives for a blob at a challenge, and the
\* commitment of the blob, on a context
OpeningOf(self, blob, z) == {o.ret : o \in compute_kzg_proof(self, blob, z)}
CommitmentOf(self, blob) == {o.ret : o \in blob_to_kzg_commitment(self, blob)}

\* C21: a verify_kzg_proof call whose commitment is blob_to_kzg_commitment
\* of a canonical blob and whose proof and evaluation are what
\* compute_kzg_proof returned for that blob at the call's canonical
\* challenge returns Ok(true).
C21_ComputedOpeningVerifies ==
    op = "verify_kzg_proof"
    => \A blob \in Blobs :
          (/\ BlobIsCanonical(blob)
           /\ args.z < CurveOrder
           /\ Ok(args.commitments[1]) \in CommitmentOf(args.self, blob)
           /\ Ok(<<args.proofs[1], args.y>>) \in OpeningOf(args.self, blob, args.z))
          => ret = Ok(TRUE)

C21_Witness ==
    /\ op = "verify_kzg_proof"
    /\ prior.tag = "Ok"
    /\ args.blobs = <<(<<1, 3>>)>>
    /\ args.z = TrustedSetup.tau
    /\ prior.val = <<args.proofs[1], args.y>>
    /\ args.proofs[1] # InfinityEncoding
    /\ ret = Ok(TRUE)

BatchOf(a) == <<a.pubkeys, a.messages, a.signatures>>

\* C23: a batch_verify call that follows a batch_verify call on another
\* batch is given another seed.
C23_FreshSeedPerBatch ==
    [][(/\ pc = "done" /\ op = "batch_verify"
        /\ pc' = "done" /\ op' = "batch_verify"
        /\ BatchOf(args') # BatchOf(args))
       => args'.seed # args.seed]_vars

\* the four ways of asking CttEngine for a multi-scalar multiplication
MsmOps == {"msm", "msm_with_cached_scalars", "msm_with_cached_base",
           "msm_with_cached_inputs"}

\* C24: on bn256 slices of equal length msm returns the sum of
\* coeffs[i] * bases[i] that the reference computes, and the three cached
\* variants return the same.
C24_MsmSameAsReference ==
    (pc = "done" /\ op \in MsmOps /\ args.curve = "bn256"
     /\ Len(args.coeffs) = Len(args.bases))
    => /\ ret = Returns(msm_best("bn256", args.coeffs, args.bases))
       /\ prior \in {NoPrior, ret}

C24_Witness ==
    /\ pc = "done"
    /\ op = "msm_with_cached_inputs"
    /\ args.curve = "bn256"
    /\ args.coeffs = <<2, 4>>
    /\ args.bases = <<1, 2>>
    /\ prior = ret
    /\ ret = Returns(0)

\* C26: for each of the three curves msm returns the multi-scalar
\* multiplication computed in that curve's group.
C26_MsmInOwnGroup ==
    (pc = "done" /\ op = "msm" /\ Len(args.coeffs) = Len(args.bases))
    => ret = Returns(msm_best(args.curve, args.coeffs, args.bases))

\* C25: evm_modexp first asks the engine for the size of the result; when
\* that fails it returns the error and makes no other engine call, and
\* otherwise it calls the computation with a buffer of that size, and an Ok
\* result has that length.
C25_ModexpSizeThenCompute ==
    (pc = "done" /\ op = "evm_modexp")
    => LET s == ctt_eth_evm_modexp_result_size(args.src)
       IN  /\ engine[1] = EngineCall("ctt_eth_evm_modexp_result_size", 0, FALSE, s.status)
           /\ IF s.status # "cttEVM_Success"
              THEN Len(engine) = 1 /\ ret = Err(s.status)
              ELSE /\ Len(engine) = 2
                   /\ engine[2].fn = "ctt_eth_evm_modexp"
                   /\ engine[2].len = s.size
                   /\ ret.tag = "Ok" => Len(ret.val) = s.size
                   /\ ret.tag = "Err" => ret.err = engine[2].status

C25_Witness ==
    /\ pc = "done"
    /\ op = "evm_modexp"
    /\ args.src = <<1, 1, 1, 2, 3, 3>>
    /\ Len(engine) = 2
    /\ ret = Ok(<<2>>)

C25_WitnessSizeFails ==
    /\ pc = "done"
    /\ op = "evm_modexp"
    /\ Len(engine) = 1
    /\ ret = Err("cttEVM_InvalidInputSize")

\* the results a serial method gives on the arguments of the last call when
\* the context's thread-pool field holds tp
SerialResultsWith(tp) ==
    {o.ret : o \in CallSerial(op, [args EXCEPT !.self = EthKzgContext(args.self.ctx, tp)])}

\* a serial method was called on a context built without set_threadpool: it
\* did not panic and the pool field has no part in its result
SerialIgnoresPool ==
    (pc = "done" /\ op \in KzgOps /\ args.self.threadpool = None)
    => /\ ret.tag # "Panic"
       /\ \A n \in 1 .. 2 : ret \in SerialResultsWith(Some(Threadpool_new(n)))

MismatchedLengths ==
    Len(args.blobs) # Len(args.commitments) \/ Len(args.blobs) # Len(args.proofs)

\* C27 as stated: every _parallel method called on a context without a pool
\* panics with 'Threadpool has been set' before any engine call and never
\* returns an Err, and every serial method works without the pool.
C27_ParallelWithoutPoolPanics ==
    /\ (pc = "done" /\ op \in KzgParallelOps /\ args.self.threadpool = None)
       => ret = Panic("Threadpool has been set") /\ engine = <<>>
    /\ SerialIgnoresPool

\* C27, amended: a _parallel method called on a context without a pool makes
\* no engine call; it panics with 'Threadpool has been set', except that
\* verify_blob_kzg_proof_batch_parallel on lists of different lengths returns
\* Err(InputsLengthsMismatch); every serial method works without the pool.
C27_ParallelWithoutPoolNoEngineCall ==
    /\ (pc = "done" /\ op \in KzgParallelOps /\ args.self.threadpool = None)
       => /\ engine = <<>>
          /\ IF op = "verify_blob_kzg_proof_batch_parallel" /\ MismatchedLengths
             THEN ret = Err("cttEthKzg_InputsLengthsMismatch")
             ELSE ret = Panic("Threadpool has been set")
    /\ SerialIgnoresPool

C27_Witness ==
    /\ pc = "done"
    /\ op = "blob_to_kzg_commitment_parallel"
    /\ args.self.threadpool = None
    /\ prior.tag = "Ok"
    /\ ret = Panic("Threadpool has been set")

C27_WitnessLengths ==
    /\ pc = "done"
    /\ op = "verify_blob_kzg_proof_batch_parallel"
    /\ args.self.threadpool = None
    /\ ret = Err("cttEthKzg_InputsLengthsMismatch")

\* the wrappers that give the engine an output buffer
OutputOps ==
    DOMAIN Deserializers
    \cup {"deserialize_seckey", "blob_to_kzg_commitment", "compute_kzg_proof",
          "compute_blob_kzg_proof", "blob_to_kzg_commitment_parallel",
          "compute_kzg_proof_parallel", "compute_blob_kzg_proof_parallel",
          "evm_modexp", "evm_bn254_g1add"}

\* the status the engine reported to the last call
EngineStatus ==
    CASE op = "deserialize_seckey" -> ctt_eth_bls_deserialize_seckey(args.src).status
      [] op = "deserialize_pubkey_compressed" ->
           ctt_eth_bls_deserialize_pubkey_compressed(args.src).status
      [] op = "deserialize_pubkey_compressed_unchecked" ->
           ctt_eth_bls_deserialize_pubkey_compressed_unchecked(args.src).status
      [] op = "deserialize_signature_compressed" ->
           ctt_eth_bls_deserialize_signature_compressed(args.src).status
      [] op = "deserialize_signature_compressed_unchecked" ->
           ctt_eth_bls_deserialize_signature_compressed_unchecked(args.src).status
      [] OTHER -> engine[Len(engine)].status

\* the statuses on which the last call may hand the buffer to its caller
BufferStatuses ==
    {"cttCodecScalar_Success", "cttCodecEcc_Success", "cttEthKzg_Success", "cttEVM_Success"}
    \cup IF op \in DOMAIN Deserializers THEN {"cttCodecEcc_PointAtInfinity"} ELSE {}

\* C28: a wrapper that gives the engine an output buffer returns Ok with the
\* buffer only when the engine reported Success (or PointAtInfinity, for the
\* four point deserializers); on every other status it returns Err with
\* exactly that status and no output.
C28_BufferOnlyOnSuccess ==
    (pc = "done" /\ op \in OutputOps /\ ret.tag # "Panic")
    => /\ ret.tag = "Ok" <=> EngineStatus \in BufferStatuses
       /\ ret.tag # "Ok" => ret = Err(EngineStatus)

C28_Witness ==
    /\ pc = "done"
    /\ op = "evm_bn254_g1add"
    /\ args.src = <<1, 3>>
    /\ ret = Err("cttEVM_PointNotOnCurve")

C28_WitnessInfinity ==
    /\ pc = "done"
    /\ op = "deserialize_signature_compressed"
    /\ EngineStatus = "cttCodecEcc_PointAtInfinity"
    /\ ret.tag = "Ok"

\* the references to a pool a caller can attach
PoolRefs == {[ctx |-> h] : h \in PoolHandles}

\* on the builder b, loading file_path and attaching tp give the same in
\* either order, and build then yields the loaded pointer with tp
BuilderCommutes(b, tp, file_path) ==
    LET loadFirst == EthKzgContextBuilder_load_trusted_setup(b, file_path, setups)
        setFirst == EthKzgContextBuilder_load_trusted_setup(set_threadpool(b, tp),
                                                            file_path, setups)
    IN  /\ loadFirst.ret.tag = setFirst.ret.tag
        /\ loadFirst.setups = setFirst.setups
        /\ loadFirst.ret.tag = "Ok"
           => /\ loadFirst.ret.val.threadpool = b.threadpool
              /\ build(set_threadpool(loadFirst.ret.val, tp)) = build(setFirst.ret.val)
              /\ build(setFirst.ret.val)
                 = Ok(EthKzgContext(ctt_eth_trusted_setup_load(setups, file_path).ctx,
                                    Some(tp)))

BuildersCommute ==
    \A w \in Wrappers :
       wrappers[w].kind = "builder"
       => LET b == wrappers[w].val
          IN  \A tp \in PoolRefs :
                 /\ set_threadpool(b, tp).ctx = b.ctx
                 /\ \A tp2 \in PoolRefs :
                       set_threadpool(set_threadpool(b, tp), tp2)
                       = EthKzgContextBuilder(b.ctx, Some(tp2))
                 /\ \A file_path \in Paths :
                       ((file_path.file = "good" /\ ~file_path.nul)
                           => FreeSetups(setups) # {})
                       => BuilderCommutes(b, tp, file_path)

\* what a step does to the builder in the slot w
BuilderStep(w) ==
    /\ (wrappers[w].kind = "builder" /\ wrappers'[w].kind = "builder"
        /\ wrappers'[w].val # wrappers[w].val)
       => \/ /\ wrappers'[w].val.ctx = wrappers[w].val.ctx
             /\ wrappers'[w].val.threadpool # None
          \/ /\ wrappers'[w].val.threadpool = wrappers[w].val.threadpool
             /\ wrappers'[w].val.ctx # None
             /\ op' = "EthKzgContextBuilder_load_trusted_setup"
    /\ (wrappers[w].kind = "builder" /\ wrappers'[w].kind = "context")
       => wrappers'[w].val
          = EthKzgContext(wrappers[w].val.ctx[1], wrappers[w].val.threadpool)

\* C29: on the builder, load_trusted_setup keeps an attached pool and
\* set_threadpool keeps a loaded setup, so either order followed by build
\* yields a context with the loaded pointer and the attached pool, and a
\* second set_threadpool replaces only the pool.
C29_LoadAndSetThreadpoolCommute ==
    /\ []BuildersCommute
    /\ [][\A w \in Wrappers : BuilderStep(w)]_vars

C29_Witness ==
    /\ op = "build"
    /\ ret.tag = "Ok"
    /\ ret.val.threadpool # None
    /\ args.self.ctx # None
    /\ wrappers[args.w].kind = "context"
    /\ wrappers[args.w].val = ret.val

Validators == {"validate_pubkey", "validate_signature"}

\* C30: on an encoding for which the engine reports PointAtInfinity each of
\* the four deserializers returns Ok with the identity point, and
\* validate_pubkey and validate_signature on an identity point return
\* Err(PointAtInfinity).
C30_InfinityDecodesButDoesNotValidate ==
    /\ (pc = "done" /\ op \in DOMAIN Deserializers
        /\ EngineStatus = "cttCodecEcc_PointAtInfinity")
       => ret = Ok(0)
    /\ (pc = "done" /\ op \in Validators /\ (prior.val = 0 \/ args.src = InfinityEncoding))
       => prior.tag = "Ok" /\ ret = Err("cttCodecEcc_PointAtInfinity")

C30_Witness ==
    /\ pc = "done"
    /\ op = "validate_pubkey"
    /\ args.src = InfinityEncoding
    /\ prior = Ok(0)
    /\ ret = Err("cttCodecEcc_PointAtInfinity")

====
